---- MODULE Spec2Model ----
(***************************************************************************)
(* AidVoice: the in-memory storage (server/storage.ts), the REST handlers   *)
(* that sit on it (server/routes.ts), the server-side Gemini service and    *)
(* the client TranslationService, as state machines.                        *)
(*                                                                          *)
(* JSON values are modelled as follows: a string is a TLA+ string, an       *)
(* array is a sequence, an opaque JSON object is the set of its entries     *)
(* written "key:value", a record of the storage is a function from field    *)
(* names to values, and a field that is absent from an object is absent     *)
(* from the function's domain.                                              *)
(***************************************************************************)
EXTENDS Integers, Sequences, FiniteSets, TLC

VARIABLES
    users,               \* MemStorage.users: Map<number, User>
    emergencyProtocols,  \* MemStorage.emergencyProtocols
    emergencyContacts,   \* MemStorage.emergencyContacts
    userSessions,        \* MemStorage.userSessions
    currentId,           \* MemStorage.currentId, the shared id counter
    clock,               \* what `new Date()` last returned
    call,                \* the last storage method invoked, its arguments and its return value
    created,             \* history: the ids returned by the create methods, in call order
    res,                 \* the last HTTP exchange: request and response
    isInitialized,       \* GeminiService.isInitialized
    ai,                  \* GeminiService.ai: TRUE for a client object, FALSE for null
    aiCall,              \* the last GeminiService method invoked and how its promise settled
    tIsInitialized,      \* TranslationService.isInitialized
    translationCache,    \* TranslationService.translationCache: Map<string, TranslationResult>
    tCall,               \* the last TranslationService.translateText call and its result
    inflight,            \* the requests the server has accepted and how far each handler got
    hookState,           \* per component, the state its useAccessibility instance holds
    savedSettings,       \* localStorage['accessibility-settings']
    rootClasses,         \* document.documentElement.classList
    currentSession,      \* EmergencyService.currentSession
    actionHistory,       \* EmergencyService.actionHistory
    sessionCall,         \* the startSession or endSession call under way and its await
    sessionLog,          \* history: the actions logged since the session's startSession call
    persisted,           \* what the last endSession wrote to the server and the offline store
    serviceInitialized,  \* EmergencyService.isInitialized
    initializeCalls,     \* per EmergencyService.initialize call, how far it got
    startSessionRuns,    \* history: how many times initialize went on to startSession
    serverSessions,      \* history: how many sessions those runs created on the server
    currentProtocol,     \* useEmergencyProtocols: the type of the active protocol, or null
    currentStepIndex,    \* EmergencyGuidance.currentStepIndex
    completedSteps,      \* EmergencyGuidance.completedSteps
    voiceCall,           \* the VoiceInterface.processVoiceCommand call under way
    voiceCallbacks,      \* history: the callbacks VoiceInterface made, with their transcript
    sceneAnalysis,       \* what AIService.analyzeScene last returned to its caller
    deviceStatus,        \* useDeviceStatus.deviceStatus
    batteryCheck,        \* the last checkBatteryLevel call: what it read and returned
    translations,        \* OfflineService: the 'translations' object store, in key order
    cacheLookup,         \* the last getCachedTranslation call and what it resolved to
    messages,            \* ChatInterface.messages
    input,               \* ChatInterface.input
    isLoading,           \* ChatInterface.isLoading
    chatCall,            \* the handleSendMessage call under way and the fetch it awaits
    chatSends            \* history: the sends attempted and the sends accepted

geminiVars == <<isInitialized, ai, aiCall>>
a11yVars == <<hookState, savedSettings, rootClasses>>
emergencyVars == <<currentSession, actionHistory, sessionCall, sessionLog, persisted>>
initVars == <<serviceInitialized, initializeCalls, startSessionRuns, serverSessions>>
guidanceVars == <<currentProtocol, currentStepIndex, completedSteps>>
voiceVars == <<voiceCall, voiceCallbacks>>
deviceVars == <<deviceStatus, batteryCheck>>
offlineVars == <<translations, cacheLookup>>
chatVars == <<messages, input, isLoading, chatCall, chatSends>>
homeVars == <<initVars, guidanceVars, voiceVars, sceneAnalysis, deviceVars, offlineVars, chatVars>>
besidesInit == <<guidanceVars, voiceVars, sceneAnalysis, deviceVars, offlineVars, chatVars>>
besidesGuidance == <<initVars, voiceVars, sceneAnalysis, deviceVars, offlineVars, chatVars>>
besidesVoice == <<initVars, sceneAnalysis, deviceVars, offlineVars, chatVars>>
besidesScene == <<initVars, guidanceVars, voiceVars, deviceVars, offlineVars, chatVars>>
besidesDevice == <<initVars, guidanceVars, voiceVars, sceneAnalysis, offlineVars, chatVars>>
besidesOffline == <<initVars, guidanceVars, voiceVars, sceneAnalysis, deviceVars, chatVars>>
besidesChat == <<initVars, guidanceVars, voiceVars, sceneAnalysis, deviceVars, offlineVars>>
pageVars == <<a11yVars, emergencyVars, homeVars>>
clientVars == <<tIsInitialized, translationCache, tCall, pageVars>>
storageVars == <<users, emergencyProtocols, emergencyContacts, userSessions, currentId, clock>>
otherVars == <<storageVars, call, created, res, geminiVars, inflight,
               tIsInitialized, translationCache, tCall, a11yVars>>
vars == <<users, emergencyProtocols, emergencyContacts, userSessions, currentId, clock,
          call, created, res, isInitialized, ai, aiCall,
          tIsInitialized, translationCache, tCall, inflight,
          hookState, savedSettings, rootClasses,
          currentSession, actionHistory, sessionCall, sessionLog, persisted,
          serviceInitialized, initializeCalls, startSessionRuns, serverSessions,
          currentProtocol, currentStepIndex, completedSteps,
          voiceCall, voiceCallbacks, sceneAnalysis,
          deviceStatus, batteryCheck,
          translations, cacheLookup,
          messages, input, isLoading, chatCall, chatSends>>

-----------------------------------------------------------------------------
(* Bounds of the model *)

\* Creation is cut off once the counter has passed MaxId.
MaxId == 10

-----------------------------------------------------------------------------
(* JavaScript values *)

\* `undefined`, as a storage method returns it.
Undefined == [undefined |-> TRUE]

\* JSON null in a text column.
Null == "<null>"

\* A JSON value that is not a string (a number, say) where the schema wants text.
NonString == "<number>"

\* NaN, what parseInt gives for a parameter with no leading digit; written as a
\* number no counter value can equal.
NaN == -1

\* { ...a, ...b }: the keys of both, b's value wherever b has the key.
Spread(a, b) ==
    [f \in (DOMAIN a) \cup (DOMAIN b) |-> IF f \in DOMAIN b THEN b[f] ELSE a[f]]

\* obj.field || dflt: absent, null and "" are falsy.
OrDefault(obj, field, dflt) ==
    IF field \in DOMAIN obj /\ obj[field] \notin {Null, ""} THEN obj[field] ELSE dflt

\* obj.field || dflt for an object- or array-valued field (always truthy when present).
OrDefaultJson(obj, field, dflt) ==
    IF field \in DOMAIN obj THEN obj[field] ELSE dflt

\* Map.prototype.set(k, v)
MapSet(m, k, v) == [x \in (DOMAIN m) \cup {k} |-> IF x = k THEN v ELSE m[x]]

\* Map.prototype.get(k)
MapGet(m, k) == IF k \in DOMAIN m THEN m[k] ELSE Undefined

\* Array.from(m.values()): the values in insertion order.  Keys are inserted in
\* counter order and set() on an existing key keeps its place, so insertion
\* order is ascending key order.
MapValues(m) ==
    LET ks == DOMAIN m
        kth(i) == CHOOSE k \in ks : Cardinality({j \in ks : j < k}) = i - 1
    IN  [i \in 1..Cardinality(ks) |-> m[kth(i)]]

\* The elements of a sequence, as a set.
Range(seq) == {seq[i] : i \in 1..Len(seq)}

\* parseInt(s, 10) on a path parameter, given as its characters: the value of
\* the longest prefix of decimal digits, NaN when there is none.
DigitValue ==
    [d \in {"0", "1", "2", "3", "4", "5", "6", "7", "8", "9"} |->
        CASE d = "0" -> 0 [] d = "1" -> 1 [] d = "2" -> 2 [] d = "3" -> 3 [] d = "4" -> 4
          [] d = "5" -> 5 [] d = "6" -> 6 [] d = "7" -> 7 [] d = "8" -> 8 [] d = "9" -> 9]

ParseInt(s) ==
    LET isDigits(k) == \A i \in 1..k : s[i] \in DOMAIN DigitValue
        n == CHOOSE k \in 0..Len(s) : isDigits(k) /\ (k = Len(s) \/ ~isDigits(k + 1))
        val[i \in 0..Len(s)] == IF i = 0 THEN 0 ELSE val[i - 1] * 10 + DigitValue[s[i]]
    IN  IF n = 0 THEN NaN ELSE val[n]

-----------------------------------------------------------------------------
(* shared/schema.ts: the Zod insert schemas derived from the tables.  A      *)
(* notNull column without default is required; every other picked column is  *)
(* optional, and nullable when the column is.  z.object strips unknown keys.  *)

insertUserSchema ==
    [fields   |-> {"username", "password", "preferredLanguage", "accessibilitySettings"},
     required |-> {"username", "password"},
     text     |-> {"username", "password", "preferredLanguage"},
     nullable |-> {"preferredLanguage", "accessibilitySettings"}]

insertEmergencyProtocolSchema ==
    [fields   |-> {"type", "name", "description", "instructions", "severity", "category",
                   "languages"},
     required |-> {"type", "name", "instructions", "severity", "category"},
     text     |-> {"type", "name", "description", "severity", "category"},
     nullable |-> {"description", "languages"}]

insertEmergencyContactSchema ==
    [fields   |-> {"name", "phoneNumber", "type", "country", "region", "isActive"},
     required |-> {"name", "phoneNumber", "type", "country"},
     text     |-> {"name", "phoneNumber", "type", "country", "region"},
     nullable |-> {"region", "isActive"}]

insertUserSessionSchema ==
    [fields   |-> {"userId", "sessionData", "emergencyType", "actions"},
     required |-> {"sessionData"},
     text     |-> {"emergencyType"},
     nullable |-> {"userId", "emergencyType", "actions"}]

\* schema.partial(): every key optional.
Partial(schema) == [schema EXCEPT !.required = {}]

\* Whether schema.parse(body) returns (TRUE) or throws a ZodError (FALSE).
Accepts(schema, body) ==
    /\ schema.required \subseteq DOMAIN body
    /\ \A f \in (DOMAIN body) \cap schema.text :
          /\ body[f] # NonString
          /\ body[f] = Null => f \in schema.nullable

\* What schema.parse(body) returns: the body without the keys the schema lacks.
Parse(schema, body) == [f \in (DOMAIN body) \cap schema.fields |-> body[f]]

-----------------------------------------------------------------------------
(* server/storage.ts: MemStorage *)

\* The request slots: two clients, each with at most one request under way.
Slots == {1, 2}

\* A slot with no request under way.
Idle == [pc |-> "idle"]

\* The components of the page that call useAccessibility: App, which mirrors
\* the settings to the document, and the settings page and the
\* AccessibilityControls panel, which change them.
Components == {"App", "Settings", "Controls"}

\* The calls of EmergencyService.initialize: Home's effect runs again when
\* one of its dependencies changes.
InitializeCalls == {1, 2, 3}

\* useState of useDeviceStatus; the fields no operation of the model reads
\* (isOnline, memoryUsage, memoryLimit) are left out.
InitialDeviceStatus ==
    [batteryLevel |-> 100, isCharging |-> FALSE, currentModel |-> "Gemma-3n-4B",
     modelPerformance |-> "optimal", powerSavingMode |-> FALSE]

\* A component that is not rendered.
Unmounted == [mounted |-> FALSE]

\* localStorage.getItem gives null.
NoItem == [item |-> FALSE]

\* EmergencyService.currentSession is null.
NoSession == [session |-> FALSE]

\* endSession has not written.
NotSent == [sent |-> FALSE]

\* The records initializeDefaultData stores.  `languages` maps a language code
\* to a localized name; no operation reads it, so it is kept as its set of codes.
SeedLanguages == {"en", "es", "fr", "hi", "ar"}

defaultProtocols ==
    <<[id |-> 1, type |-> "fire", name |-> "Fire Emergency",
       description |-> "Protocol for fire emergencies",
       instructions |-> [steps |-> <<"Stay low and exit immediately",
                                     "Call emergency services", "Go to meeting point">>],
       severity |-> "high", category |-> "structural",
       languages |-> SeedLanguages, createdAt |-> 1],
      [id |-> 2, type |-> "medical", name |-> "Medical Emergency",
       description |-> "Protocol for medical emergencies",
       instructions |-> [steps |-> <<"Check for responsiveness",
                                     "Call emergency services immediately",
                                     "Begin first aid if trained">>],
       severity |-> "critical", category |-> "medical",
       languages |-> SeedLanguages, createdAt |-> 1],
      [id |-> 3, type |-> "earthquake", name |-> "Earthquake",
       description |-> "Protocol for earthquake emergencies",
       instructions |-> [steps |-> <<"Drop, cover, and hold on",
                                     "Stay away from windows and heavy objects",
                                     "Exit building when shaking stops">>],
       severity |-> "high", category |-> "natural",
       languages |-> SeedLanguages, createdAt |-> 1],
      [id |-> 4, type |-> "flood", name |-> "Flood Warning",
       description |-> "Protocol for flood emergencies",
       instructions |-> [steps |-> <<"Move to higher ground immediately",
                                     "Avoid walking in moving water",
                                     "Call emergency services">>],
       severity |-> "medium", category |-> "natural",
       languages |-> SeedLanguages, createdAt |-> 1]>>

defaultContacts ==
    <<[id |-> 5, name |-> "Emergency Services", phoneNumber |-> "911", type |-> "general",
       country |-> "US", region |-> "national", isActive |-> TRUE],
      [id |-> 6, name |-> "Fire Department", phoneNumber |-> "911", type |-> "fire",
       country |-> "US", region |-> "national", isActive |-> TRUE],
      [id |-> 7, name |-> "Medical Emergency", phoneNumber |-> "911", type |-> "medical",
       country |-> "US", region |-> "national", isActive |-> TRUE],
      [id |-> 8, name |-> "Police", phoneNumber |-> "911", type |-> "police",
       country |-> "US", region |-> "national", isActive |-> TRUE]>>

\* defaultX.forEach(x => this.map.set(x.id, x))
SetAll(seq) == [k \in {seq[i].id : i \in 1..Len(seq)} |->
                   seq[CHOOSE i \in 1..Len(seq) : seq[i].id = k]]

\* The state the constructor leaves: empty maps, currentId = 1, then
\* initializeDefaultData, which takes `this.currentId++` for each seed record.
Init ==
    /\ users = <<>>
    /\ emergencyProtocols = SetAll(defaultProtocols)
    /\ emergencyContacts = SetAll(defaultContacts)
    /\ userSessions = <<>>
    /\ currentId = 1 + Len(defaultProtocols) + Len(defaultContacts)
    /\ clock = 1
    /\ call = [method |-> "constructor", id |-> NaN, arg |-> <<>>, ret |-> Undefined]
    /\ created = <<>>
    /\ res = [route |-> "none"]
    /\ isInitialized = FALSE
    /\ ai = FALSE
    /\ aiCall = [method |-> "none"]
    /\ tIsInitialized = FALSE
    /\ translationCache = <<>>
    /\ tCall = [method |-> "none"]
    /\ inflight = [slot \in Slots |-> Idle]
    /\ hookState = [component \in Components |-> Unmounted]
    /\ savedSettings = NoItem
    /\ rootClasses = {}
    /\ currentSession = NoSession
    /\ actionHistory = <<>>
    /\ sessionCall = Idle
    /\ sessionLog = [open |-> FALSE, actions |-> <<>>]
    /\ persisted = [put |-> NotSent, stored |-> NotSent]
    /\ serviceInitialized = FALSE
    /\ initializeCalls = [c \in InitializeCalls |-> "not called"]
    /\ startSessionRuns = 0
    /\ serverSessions = 0
    /\ currentProtocol = Null
    /\ currentStepIndex = 0
    /\ completedSteps = <<>>
    /\ voiceCall = Idle
    /\ voiceCallbacks = <<>>
    /\ sceneAnalysis = [returned |-> FALSE]
    /\ deviceStatus = InitialDeviceStatus
    /\ batteryCheck = [returned |-> "none"]
    /\ translations = <<>>
    /\ cacheLookup = [method |-> "none"]
    /\ messages = <<>>
    /\ input = ""
    /\ isLoading = FALSE
    /\ chatCall = Idle
    /\ chatSends = [attempted |-> 0, accepted |-> 0]

\* What a storage method leaves in `call`; it touches nothing outside MemStorage.
Returns(method, id, arg, ret) ==
    /\ call' = [method |-> method, id |-> id, arg |-> arg, ret |-> ret]
    /\ UNCHANGED <<geminiVars, clientVars>>

\* A storage method that only reads.
Reads(method, id, arg, ret) ==
    /\ Returns(method, id, arg, ret)
    /\ UNCHANGED <<storageVars, created>>

\* getUser looking the id up across every map rather than in `users`.
getUser_AnyMap(id) ==
    Reads("getUser", id, <<>>,
          IF id \in DOMAIN users THEN users[id]
          ELSE IF id \in DOMAIN emergencyProtocols THEN emergencyProtocols[id]
          ELSE IF id \in DOMAIN emergencyContacts THEN emergencyContacts[id]
          ELSE IF id \in DOMAIN userSessions THEN userSessions[id]
          ELSE Undefined)

getUser(id) == Reads("getUser", id, <<>>, MapGet(users, id))

\* createUser numbering users by their own count rather than by currentId.
createUser_OwnCount(insertUser) ==
    LET id == Cardinality(DOMAIN users) + 1
        user == Spread(insertUser,
                       [id |-> id,
                        createdAt |-> clock + 1,
                        preferredLanguage |-> OrDefault(insertUser, "preferredLanguage", "en"),
                        accessibilitySettings |->
                            OrDefaultJson(insertUser, "accessibilitySettings", {})])
    IN  /\ currentId' = currentId + 1
        /\ clock' = clock + 1
        /\ users' = MapSet(users, id, user)
        /\ UNCHANGED <<emergencyProtocols, emergencyContacts, userSessions>>
        /\ Returns("createUser", NaN, insertUser, user)
        /\ created' = Append(created, user.id)

createUser(insertUser) ==
    LET id == currentId
        user == Spread(insertUser,
                       [id |-> id,
                        createdAt |-> clock + 1,
                        preferredLanguage |-> OrDefault(insertUser, "preferredLanguage", "en"),
                        accessibilitySettings |->
                            OrDefaultJson(insertUser, "accessibilitySettings", {})])
    IN  /\ currentId' = currentId + 1
        /\ clock' = clock + 1
        /\ users' = MapSet(users, id, user)
        /\ UNCHANGED <<emergencyProtocols, emergencyContacts, userSessions>>
        /\ Returns("createUser", NaN, insertUser, user)
        /\ created' = Append(created, user.id)

\* updateUser storing the payload in place of the record rather than merging.
updateUser_Replaces(id, updateUser_) ==
    LET existingUser == MapGet(users, id)
        updatedUser == Spread([id |-> id], updateUser_)
    IN  IF existingUser = Undefined
        THEN /\ Returns("updateUser", id, updateUser_, Undefined)
             /\ UNCHANGED <<storageVars, created>>
        ELSE /\ users' = MapSet(users, id, updatedUser)
             /\ Returns("updateUser", id, updateUser_, updatedUser)
             /\ UNCHANGED <<emergencyProtocols, emergencyContacts, userSessions, currentId,
                            clock, created>>

updateUser(id, updateUser_) ==
    LET existingUser == MapGet(users, id)
        updatedUser == Spread(existingUser, updateUser_)
    IN  IF existingUser = Undefined
        THEN /\ Returns("updateUser", id, updateUser_, Undefined)
             /\ UNCHANGED <<storageVars, created>>
        ELSE /\ users' = MapSet(users, id, updatedUser)
             /\ Returns("updateUser", id, updateUser_, updatedUser)
             /\ UNCHANGED <<emergencyProtocols, emergencyContacts, userSessions,
                            currentId, clock, created>>

getEmergencyProtocols == Reads("getEmergencyProtocols", NaN, <<>>, MapValues(emergencyProtocols))

\* getEmergencyProtocolByType returning the latest protocol of the type.
getEmergencyProtocolByType_Last(type) ==
    LET all == MapValues(emergencyProtocols)
        hits == SelectSeq(all, LAMBDA protocol : protocol.type = type)
    IN  Reads("getEmergencyProtocolByType", NaN, type,
              IF hits = <<>> THEN Undefined ELSE hits[Len(hits)])

getEmergencyProtocolByType(type) ==
    LET all == MapValues(emergencyProtocols)
        hits == SelectSeq(all, LAMBDA protocol : protocol.type = type)
    IN  Reads("getEmergencyProtocolByType", NaN, type,
              IF hits = <<>> THEN Undefined ELSE Head(hits))

\* createEmergencyProtocol spreading the input over the allocated id, so that
\* an id in the input wins.
createEmergencyProtocol_CallerId(insertProtocol) ==
    LET id == currentId
        protocol == Spread([id |-> id, createdAt |-> clock + 1], insertProtocol)
    IN  /\ currentId' = currentId + 1
        /\ clock' = clock + 1
        /\ emergencyProtocols' = MapSet(emergencyProtocols, protocol.id, protocol)
        /\ UNCHANGED <<users, emergencyContacts, userSessions>>
        /\ Returns("createEmergencyProtocol", NaN, insertProtocol, protocol)
        /\ created' = Append(created, protocol.id)

createEmergencyProtocol(insertProtocol) ==
    LET id == currentId
        protocol == Spread(insertProtocol, [id |-> id, createdAt |-> clock + 1])
    IN  /\ currentId' = currentId + 1
        /\ clock' = clock + 1
        /\ emergencyProtocols' = MapSet(emergencyProtocols, id, protocol)
        /\ UNCHANGED <<users, emergencyContacts, userSessions>>
        /\ Returns("createEmergencyProtocol", NaN, insertProtocol, protocol)
        /\ created' = Append(created, protocol.id)

updateEmergencyProtocol(id, updateProtocol) ==
    LET existingProtocol == MapGet(emergencyProtocols, id)
        updatedProtocol == Spread(existingProtocol, updateProtocol)
    IN  IF existingProtocol = Undefined
        THEN /\ Returns("updateEmergencyProtocol", id, updateProtocol, Undefined)
             /\ UNCHANGED <<storageVars, created>>
        ELSE /\ emergencyProtocols' = MapSet(emergencyProtocols, id, updatedProtocol)
             /\ Returns("updateEmergencyProtocol", id, updateProtocol, updatedProtocol)
             /\ UNCHANGED <<users, emergencyContacts, userSessions, currentId, clock,
                            created>>

\* An optional string argument that was not passed (req.query.country when the
\* query string has no country).
NotPassed == "<undefined>"

\* `country ? ... : ...`: undefined and "" are falsy.
Truthy(str) == str \notin {NotPassed, ""}

\* getEmergencyContacts ignoring the country.
getEmergencyContacts_All(country) ==
    Reads("getEmergencyContacts", NaN, country, MapValues(emergencyContacts))

getEmergencyContacts(country) ==
    LET contacts == MapValues(emergencyContacts)
    IN  Reads("getEmergencyContacts", NaN, country,
              IF Truthy(country)
              THEN SelectSeq(contacts, LAMBDA contact : contact.country = country)
              ELSE contacts)

getEmergencyContactsByType(type, country) ==
    LET contacts == SelectSeq(MapValues(emergencyContacts),
                              LAMBDA contact : contact.type = type)
    IN  Reads("getEmergencyContactsByType", NaN, <<type, country>>,
              IF Truthy(country)
              THEN SelectSeq(contacts, LAMBDA contact : contact.country = country)
              ELSE contacts)

createEmergencyContact(insertContact) ==
    LET id == currentId
        contact == Spread(insertContact, [id |-> id])
    IN  /\ currentId' = currentId + 1
        /\ emergencyContacts' = MapSet(emergencyContacts, id, contact)
        /\ UNCHANGED <<users, emergencyProtocols, userSessions, clock>>
        /\ Returns("createEmergencyContact", NaN, insertContact, contact)
        /\ created' = Append(created, contact.id)

\* updateEmergencyContact storing the merged record under a fresh id and
\* dropping the old entry.
updateEmergencyContact_Rekeys(id, updateContact) ==
    LET existingContact == MapGet(emergencyContacts, id)
        updatedContact == Spread(Spread(existingContact, updateContact), [id |-> currentId])
    IN  IF existingContact = Undefined
        THEN /\ Returns("updateEmergencyContact", id, updateContact, Undefined)
             /\ UNCHANGED <<storageVars, created>>
        ELSE /\ emergencyContacts' =
                    [k \in ((DOMAIN emergencyContacts) \ {id}) \cup {currentId} |->
                        IF k = currentId THEN updatedContact ELSE emergencyContacts[k]]
             /\ currentId' = currentId + 1
             /\ Returns("updateEmergencyContact", id, updateContact, updatedContact)
             /\ UNCHANGED <<users, emergencyProtocols, userSessions, clock, created>>

updateEmergencyContact(id, updateContact) ==
    LET existingContact == MapGet(emergencyContacts, id)
        updatedContact == Spread(existingContact, updateContact)
    IN  IF existingContact = Undefined
        THEN /\ Returns("updateEmergencyContact", id, updateContact, Undefined)
             /\ UNCHANGED <<storageVars, created>>
        ELSE /\ emergencyContacts' = MapSet(emergencyContacts, id, updatedContact)
             /\ Returns("updateEmergencyContact", id, updateContact, updatedContact)
             /\ UNCHANGED <<users, emergencyProtocols, userSessions, currentId, clock,
                            created>>

\* endTime: null, in a timestamp column; no clock value equals it.
NullTime == 0

\* createUserSession reading currentId without advancing it.
createUserSession_NoIncrement(insertSession) ==
    LET id == currentId
        session == Spread(insertSession,
                          [id |-> id,
                           startTime |-> clock + 1,
                           endTime |-> NullTime,
                           actions |-> OrDefaultJson(insertSession, "actions", <<>>)])
    IN  /\ clock' = clock + 1
        /\ userSessions' = MapSet(userSessions, id, session)
        /\ UNCHANGED <<users, emergencyProtocols, emergencyContacts, currentId>>
        /\ Returns("createUserSession", NaN, insertSession, session)
        /\ created' = Append(created, session.id)

createUserSession(insertSession) ==
    LET id == currentId
        session == Spread(insertSession,
                          [id |-> id,
                           startTime |-> clock + 1,
                           endTime |-> NullTime,
                           actions |-> OrDefaultJson(insertSession, "actions", <<>>)])
    IN  /\ currentId' = currentId + 1
        /\ clock' = clock + 1
        /\ userSessions' = MapSet(userSessions, id, session)
        /\ UNCHANGED <<users, emergencyProtocols, emergencyContacts>>
        /\ Returns("createUserSession", NaN, insertSession, session)
        /\ created' = Append(created, session.id)

getUserSessions(userId) ==
    Reads("getUserSessions", userId, <<>>,
          SelectSeq(MapValues(userSessions),
                    LAMBDA session : "userId" \in DOMAIN session /\ session.userId = userId))

\* updateUserSession appending the payload's actions to the stored ones.
updateUserSession_Appends(id, updateSession) ==
    LET existingSession == MapGet(userSessions, id)
        merged == Spread(existingSession, updateSession)
        updatedSession == IF "actions" \in DOMAIN updateSession
                          THEN [merged EXCEPT
                                   !.actions = existingSession.actions \o updateSession.actions]
                          ELSE merged
    IN  IF existingSession = Undefined
        THEN /\ Returns("updateUserSession", id, updateSession, Undefined)
             /\ UNCHANGED <<storageVars, created>>
        ELSE /\ userSessions' = MapSet(userSessions, id, updatedSession)
             /\ Returns("updateUserSession", id, updateSession, updatedSession)
             /\ UNCHANGED <<users, emergencyProtocols, emergencyContacts, currentId, clock,
                            created>>

\* updateUserSession storing the payload under an id it does not know.
updateUserSession_Upserts(id, updateSession) ==
    LET existingSession == MapGet(userSessions, id)
        updatedSession == IF existingSession = Undefined
                          THEN Spread([id |-> id], updateSession)
                          ELSE Spread(existingSession, updateSession)
    IN  /\ userSessions' = MapSet(userSessions, id, updatedSession)
        /\ Returns("updateUserSession", id, updateSession, updatedSession)
        /\ UNCHANGED <<users, emergencyProtocols, emergencyContacts, currentId, clock,
                       created>>

updateUserSession(id, updateSession) ==
    LET existingSession == MapGet(userSessions, id)
        updatedSession == Spread(existingSession, updateSession)
    IN  IF existingSession = Undefined
        THEN /\ Returns("updateUserSession", id, updateSession, Undefined)
             /\ UNCHANGED <<storageVars, created>>
        ELSE /\ userSessions' = MapSet(userSessions, id, updatedSession)
             /\ Returns("updateUserSession", id, updateSession, updatedSession)
             /\ UNCHANGED <<users, emergencyProtocols, emergencyContacts, currentId, clock,
                            created>>

-----------------------------------------------------------------------------
(* server/routes.ts: the storage-backed handlers.  Each handler takes the    *)
(* request's inputs and `fault`: whether the promise of the IStorage method  *)
(* it awaits rejects.  MemStorage never rejects, so Next passes FALSE.        *)

\* The handler returned before it reached storage.
NotCalled ==
    /\ Returns("none", NaN, <<>>, Undefined)
    /\ UNCHANGED <<storageVars, created>>

\* The awaited storage promise rejected.
Threw == [threw |-> TRUE]

Rejects(method) ==
    /\ Returns(method, NaN, <<>>, Threw)
    /\ UNCHANGED <<storageVars, created>>

\* res.status(status).json(json); `threw` is what the try block threw.
Respond(route, param, body, status, json, threw) ==
    /\ res' = [route |-> route, param |-> param, body |-> body, status |-> status,
               json |-> json, threw |-> threw]
    /\ UNCHANGED inflight

GetUser(param, fault) ==
    LET route == "GET /api/users/:id"
    IN  IF fault
        THEN /\ Rejects("getUser")
             /\ Respond(route, param, <<>>, 500, [message |-> "Failed to fetch user"], "Error")
        ELSE /\ getUser(ParseInt(param))
             /\ IF call'.ret = Undefined
                THEN Respond(route, param, <<>>, 404, [message |-> "User not found"], "none")
                ELSE Respond(route, param, <<>>, 200, call'.ret, "none")

PostUsers(body, fault) ==
    LET route == "POST /api/users"
        invalid == [message |-> "Invalid user data"]
    IN  IF ~Accepts(insertUserSchema, body)
        THEN /\ NotCalled
             /\ Respond(route, <<>>, body, 400, invalid, "ZodError")
        ELSE IF fault
        THEN /\ Rejects("createUser")
             /\ Respond(route, <<>>, body, 400, invalid, "Error")
        ELSE /\ currentId <= MaxId
             /\ createUser(Parse(insertUserSchema, body))
             /\ Respond(route, <<>>, body, 201, call'.ret, "none")

PutUser(param, body, fault) ==
    LET route == "PUT /api/users/:id"
        invalid == [message |-> "Invalid user data"]
    IN  IF ~Accepts(Partial(insertUserSchema), body)
        THEN /\ NotCalled
             /\ Respond(route, param, body, 400, invalid, "ZodError")
        ELSE IF fault
        THEN /\ Rejects("updateUser")
             /\ Respond(route, param, body, 400, invalid, "Error")
        ELSE /\ updateUser(ParseInt(param), Parse(Partial(insertUserSchema), body))
             /\ IF call'.ret = Undefined
                THEN Respond(route, param, body, 404, [message |-> "User not found"], "none")
                ELSE Respond(route, param, body, 200, call'.ret, "none")

GetEmergencyProtocols(fault) ==
    LET route == "GET /api/emergency-protocols"
    IN  IF fault
        THEN /\ Rejects("getEmergencyProtocols")
             /\ Respond(route, <<>>, <<>>, 500,
                        [message |-> "Failed to fetch emergency protocols"], "Error")
        ELSE /\ getEmergencyProtocols
             /\ Respond(route, <<>>, <<>>, 200, call'.ret, "none")

GetEmergencyProtocolByType(type, fault) ==
    LET route == "GET /api/emergency-protocols/:type"
    IN  IF fault
        THEN /\ Rejects("getEmergencyProtocolByType")
             /\ Respond(route, type, <<>>, 500,
                        [message |-> "Failed to fetch emergency protocol"], "Error")
        ELSE /\ getEmergencyProtocolByType(type)
             /\ IF call'.ret = Undefined
                THEN Respond(route, type, <<>>, 404,
                             [message |-> "Emergency protocol not found"], "none")
                ELSE Respond(route, type, <<>>, 200, call'.ret, "none")

\* POST /api/emergency-protocols handing req.body to storage unparsed.
PostEmergencyProtocols_Unparsed(body, fault) ==
    LET route == "POST /api/emergency-protocols"
        invalid == [message |-> "Invalid protocol data"]
    IN  IF fault
        THEN /\ Rejects("createEmergencyProtocol")
             /\ Respond(route, <<>>, body, 400, invalid, "Error")
        ELSE /\ currentId <= MaxId
             /\ createEmergencyProtocol(body)
             /\ Respond(route, <<>>, body, 201, call'.ret, "none")

PostEmergencyProtocols(body, fault) ==
    LET route == "POST /api/emergency-protocols"
        invalid == [message |-> "Invalid protocol data"]
    IN  IF ~Accepts(insertEmergencyProtocolSchema, body)
        THEN /\ NotCalled
             /\ Respond(route, <<>>, body, 400, invalid, "ZodError")
        ELSE IF fault
        THEN /\ Rejects("createEmergencyProtocol")
             /\ Respond(route, <<>>, body, 400, invalid, "Error")
        ELSE /\ currentId <= MaxId
             /\ createEmergencyProtocol(Parse(insertEmergencyProtocolSchema, body))
             /\ Respond(route, <<>>, body, 201, call'.ret, "none")

GetEmergencyContacts(country, fault) ==
    LET route == "GET /api/emergency-contacts"
    IN  IF fault
        THEN /\ Rejects("getEmergencyContacts")
             /\ Respond(route, country, <<>>, 500,
                        [message |-> "Failed to fetch emergency contacts"], "Error")
        ELSE /\ getEmergencyContacts(country)
             /\ Respond(route, country, <<>>, 200, call'.ret, "none")

GetEmergencyContactsByType(type, country, fault) ==
    LET route == "GET /api/emergency-contacts/type/:type"
    IN  IF fault
        THEN /\ Rejects("getEmergencyContactsByType")
             /\ Respond(route, <<type, country>>, <<>>, 500,
                        [message |-> "Failed to fetch emergency contacts by type"], "Error")
        ELSE /\ getEmergencyContactsByType(type, country)
             /\ Respond(route, <<type, country>>, <<>>, 200, call'.ret, "none")

PostEmergencyContacts(body, fault) ==
    LET route == "POST /api/emergency-contacts"
        invalid == [message |-> "Invalid contact data"]
    IN  IF ~Accepts(insertEmergencyContactSchema, body)
        THEN /\ NotCalled
             /\ Respond(route, <<>>, body, 400, invalid, "ZodError")
        ELSE IF fault
        THEN /\ Rejects("createEmergencyContact")
             /\ Respond(route, <<>>, body, 400, invalid, "Error")
        ELSE /\ currentId <= MaxId
             /\ createEmergencyContact(Parse(insertEmergencyContactSchema, body))
             /\ Respond(route, <<>>, body, 201, call'.ret, "none")

PostUserSessions(body, fault) ==
    LET route == "POST /api/user-sessions"
        invalid == [message |-> "Invalid session data"]
    IN  IF ~Accepts(insertUserSessionSchema, body)
        THEN /\ NotCalled
             /\ Respond(route, <<>>, body, 400, invalid, "ZodError")
        ELSE IF fault
        THEN /\ Rejects("createUserSession")
             /\ Respond(route, <<>>, body, 400, invalid, "Error")
        ELSE /\ currentId <= MaxId
             /\ createUserSession(Parse(insertUserSessionSchema, body))
             /\ Respond(route, <<>>, body, 201, call'.ret, "none")

GetUserSessions(param, fault) ==
    LET route == "GET /api/user-sessions/:userId"
    IN  IF fault
        THEN /\ Rejects("getUserSessions")
             /\ Respond(route, param, <<>>, 500,
                        [message |-> "Failed to fetch user sessions"], "Error")
        ELSE /\ getUserSessions(ParseInt(param))
             /\ Respond(route, param, <<>>, 200, call'.ret, "none")

PutUserSession(param, body, fault) ==
    LET route == "PUT /api/user-sessions/:id"
        invalid == [message |-> "Invalid session data"]
    IN  IF ~Accepts(Partial(insertUserSessionSchema), body)
        THEN /\ NotCalled
             /\ Respond(route, param, body, 400, invalid, "ZodError")
        ELSE IF fault
        THEN /\ Rejects("updateUserSession")
             /\ Respond(route, param, body, 400, invalid, "Error")
        ELSE /\ updateUserSession(ParseInt(param), Parse(Partial(insertUserSessionSchema), body))
             /\ IF call'.ret = Undefined
                THEN Respond(route, param, body, 404, [message |-> "Session not found"], "none")
                ELSE Respond(route, param, body, 200, call'.ret, "none")

\* Storage methods no route reaches, called on the exported `storage` object.
CallUpdateEmergencyProtocol(id, updateProtocol) ==
    /\ updateEmergencyProtocol(id, updateProtocol)
    /\ res' = [route |-> "none"]
    /\ UNCHANGED inflight

CallUpdateEmergencyContact(id, updateContact) ==
    /\ updateEmergencyContact(id, updateContact)
    /\ res' = [route |-> "none"]
    /\ UNCHANGED inflight

-----------------------------------------------------------------------------
(* The requests the model sends *)

\* :id and :userId path parameters, as their characters: the id of a seed
\* protocol, the first id a create hands out, an id never handed out, and one
\* that is no number.
PathParams == {<<"1">>, <<"9">>, <<"4", "0">>, <<"a", "b", "c">>}

\* POST /api/users bodies: the required columns only; every column; no password.
UserBodies ==
    {[username |-> "alice", password |-> "pw"],
     [username |-> "bob", password |-> "pw", preferredLanguage |-> "es",
      accessibilitySettings |-> {"largeText:true"}],
     [username |-> "carol"]}

\* PUT /api/users/:id bodies: one field; two fields; no field; an ill-typed one.
UserPatches ==
    {[preferredLanguage |-> "fr"],
     [username |-> "carol", password |-> "pw9"],
     <<>>,
     [password |-> NonString]}

\* POST /api/emergency-protocols bodies: the type of a seed protocol; a new
\* type, every column; no severity.
ProtocolBodies ==
    {[type |-> "fire", name |-> "Kitchen fire", instructions |-> [steps |-> <<"Cut the gas">>],
      severity |-> "high", category |-> "structural"],
     [type |-> "storm", name |-> "Storm", description |-> "Protocol for storms",
      instructions |-> [steps |-> <<"Stay inside">>], severity |-> "medium",
      category |-> "natural", languages |-> {"en"}],
     [type |-> "storm", name |-> "Storm", instructions |-> [steps |-> <<"Stay inside">>],
      category |-> "natural"]}

ProtocolPatches == {[severity |-> "low", instructions |-> [steps |-> <<"Evacuate">>]]}

ProtocolTypes == {"fire", "storm"}

\* POST /api/emergency-contacts bodies: another country; the seeds' country,
\* every column; no country.
ContactBodies ==
    {[name |-> "Emergency", phoneNumber |-> "112", type |-> "general", country |-> "CA"],
     [name |-> "Sheriff", phoneNumber |-> "555", type |-> "police", country |-> "US",
      region |-> "county", isActive |-> FALSE],
     [name |-> "Nobody", phoneNumber |-> "000", type |-> "general"]}

ContactPatches == {[country |-> "CA"], [country |-> "US"]}

ContactTypes == {"police"}

\* req.query.country: absent, empty, the seeds' country, another one.
Countries == {NotPassed, "", "US", "CA"}

\* POST /api/user-sessions bodies: the required column only; every column; no
\* sessionData.
SessionBodies ==
    {[sessionData |-> {"mode:voice"}],
     [userId |-> 9, sessionData |-> {"mode:text"}, emergencyType |-> "fire",
      actions |-> <<"a1">>],
     [userId |-> 9]}

\* PUT /api/user-sessions/:id bodies: new actions and a key the schema lacks;
\* an ill-typed one.
SessionPatches ==
    {[actions |-> <<"a1", "a2">>, endTime |-> 7],
     [emergencyType |-> NonString]}

\* Ids passed to the storage methods called directly: a seed contact, the
\* first id a create hands out, an id never handed out.
DirectIds == {5, 9, 40}

-----------------------------------------------------------------------------
(* Specifications *)

Next ==
    \/ \E p \in PathParams : GetUser(p, FALSE)
    \/ \E b \in UserBodies : PostUsers(b, FALSE)
    \/ \E p \in PathParams, b \in UserPatches : PutUser(p, b, FALSE)
    \/ GetEmergencyProtocols(FALSE)
    \/ \E t \in ProtocolTypes : GetEmergencyProtocolByType(t, FALSE)
    \/ \E b \in ProtocolBodies : PostEmergencyProtocols(b, FALSE)
    \/ \E c \in Countries : GetEmergencyContacts(c, FALSE)
    \/ \E t \in ContactTypes, c \in Countries : GetEmergencyContactsByType(t, c, FALSE)
    \/ \E b \in ContactBodies : PostEmergencyContacts(b, FALSE)
    \/ \E b \in SessionBodies : PostUserSessions(b, FALSE)
    \/ \E p \in PathParams : GetUserSessions(p, FALSE)
    \/ \E p \in PathParams, b \in SessionPatches : PutUserSession(p, b, FALSE)
    \/ \E i \in DirectIds, u \in ProtocolPatches : CallUpdateEmergencyProtocol(i, u)
    \/ \E i \in DirectIds, u \in ContactPatches : CallUpdateEmergencyContact(i, u)

Spec == Init /\ [][Next]_vars

-----------------------------------------------------------------------------
(* server/gemini-service.ts: GeminiService, and the routes that call it.     *)
(* Each method takes `key`, whether process.env.GEMINI_API_KEY is set when   *)
(* initialize reads it, and `upstream`, what ai.models.generateContent does. *)
(* A confidence is kept in tenths: 9 stands for 0.9.                         *)

\* generateContent: it throws; it answers without text; it answers text that
\* is not JSON; it answers the JSON asked for.
Upstreams == {"throws", "no text", "malformed", "json"}

\* initialize(): what it leaves in isInitialized and ai, and whether it threw.
GeminiService_initialize(key) ==
    IF isInitialized
    THEN [threw |-> FALSE, isInitialized |-> isInitialized, ai |-> ai]
    ELSE IF ~key
    THEN [threw |-> TRUE, isInitialized |-> isInitialized, ai |-> ai]
    ELSE [threw |-> FALSE, isInitialized |-> TRUE, ai |-> TRUE]

\* The head of every method:
\*   if (!this.isInitialized || !this.ai) await this.initialize();
\*   if (!this.ai) throw new Error('Gemini service not properly initialized');
\* It runs before the method's try block, so what it throws rejects the method.
Prepared(key) ==
    LET after == IF ~isInitialized \/ ~ai
                 THEN GeminiService_initialize(key)
                 ELSE [threw |-> FALSE, isInitialized |-> isInitialized, ai |-> ai]
    IN  [after EXCEPT !.threw = after.threw \/ ~after.ai]

\* How a method's promise settles: the head's outcome, then the try block's.
\* `parsed` is what the try block returns when generateContent answers JSON,
\* `caught` what the catch block returns; JSON.parse(response.text || '{}')
\* gives {} for an answer without text and throws on malformed text.
Settles(method, arg, key, upstream, parsed, caught) ==
    LET head == Prepared(key)
    IN  /\ isInitialized' = head.isInitialized
        /\ ai' = head.ai
        /\ aiCall' =
              IF head.threw
              THEN [method |-> method, arg |-> arg, key |-> key, upstream |-> "not called",
                    settled |-> "rejected", value |-> <<>>]
              ELSE [method |-> method, arg |-> arg, key |-> key, upstream |-> upstream,
                    settled |-> "resolved",
                    value |-> CASE upstream = "json" -> parsed
                                [] upstream = "no text" -> <<>>
                                [] OTHER -> caught]
        /\ UNCHANGED <<storageVars, call, created, clientVars>>

GeminiService_analyzeEmergencyText(text, key, upstream) ==
    Settles("analyzeEmergencyText", text, key, upstream,
            [isEmergency |-> TRUE, emergencyType |-> "fire", severity |-> "high",
             confidence |-> 9, recommendations |-> <<"Leave the building">>],
            [isEmergency |-> FALSE, emergencyType |-> "general", severity |-> "low",
             confidence |-> 0, recommendations |-> <<"Unable to analyze emergency status">>])

\* translateText with a catch block that rethrows, as chat's does.
GeminiService_translateText_Rethrows(text, targetLanguage, key, upstream) ==
    LET head == Prepared(key)
        failed == head.threw \/ upstream \in {"throws", "malformed"}
    IN  /\ isInitialized' = head.isInitialized
        /\ ai' = head.ai
        /\ aiCall' =
              [method |-> "translateText", arg |-> <<text, targetLanguage>>, key |-> key,
               upstream |-> IF head.threw THEN "not called" ELSE upstream,
               settled |-> IF failed THEN "rejected" ELSE "resolved",
               value |-> IF failed \/ upstream = "no text"
                         THEN <<>>
                         ELSE [translatedText |-> "translated", sourceLanguage |-> "en",
                               confidence |-> 9]]
        /\ UNCHANGED <<storageVars, call, created, clientVars>>

GeminiService_translateText(text, targetLanguage, key, upstream) ==
    Settles("translateText", <<text, targetLanguage>>, key, upstream,
            [translatedText |-> "translated", sourceLanguage |-> "en", confidence |-> 9],
            [translatedText |-> text, sourceLanguage |-> "unknown", confidence |-> 0])

GeminiService_analyzeImage(imageData, key, upstream) ==
    Settles("analyzeImage", imageData, key, upstream,
            [description |-> "A kitchen on fire", emergencyIndicators |-> <<"flames">>,
             recommendations |-> <<"Leave the building">>, severity |-> "critical"],
            [description |-> "Unable to analyze image", emergencyIndicators |-> <<>>,
             recommendations |-> <<"Unable to analyze image for emergency indicators">>,
             severity |-> "low"])

\* chat(): its catch block rethrows, so a failed upstream call rejects it; an
\* answer without text resolves to an apology.
GeminiService_chat(message, key, upstream) ==
    LET head == Prepared(key)
    IN  /\ isInitialized' = head.isInitialized
        /\ ai' = head.ai
        /\ aiCall' =
              IF head.threw
              THEN [method |-> "chat", arg |-> message, key |-> key, upstream |-> "not called",
                    settled |-> "rejected", value |-> <<>>]
              ELSE IF upstream = "throws"
              THEN [method |-> "chat", arg |-> message, key |-> key, upstream |-> upstream,
                    settled |-> "rejected", value |-> <<>>]
              ELSE [method |-> "chat", arg |-> message, key |-> key, upstream |-> upstream,
                    settled |-> "resolved",
                    value |-> IF upstream = "no text"
                              THEN "I apologize, but I couldn't process your request right now."
                              ELSE "Stay calm and call 911."]
        /\ UNCHANGED <<storageVars, call, created, clientVars>>

\* The handler answered 400 before it reached the service.
ServiceNotCalled ==
    /\ aiCall' = [method |-> "none"]
    /\ UNCHANGED <<storageVars, call, created, clientVars, isInitialized, ai>>

\* !value for a string taken from req.body: absent and "" are falsy.
Missing(str) == ~Truthy(str)

PostGeminiTranslate(text, targetLanguage, key, upstream) ==
    LET route == "POST /api/gemini/translate"
        body == [text |-> text, targetLanguage |-> targetLanguage]
    IN  IF Missing(text) \/ Missing(targetLanguage)
        THEN /\ ServiceNotCalled
             /\ Respond(route, <<>>, body, 400,
                        [message |-> "Text and target language are required"], "none")
        ELSE /\ GeminiService_translateText(text, targetLanguage, key, upstream)
             /\ IF aiCall'.settled = "rejected"
                THEN Respond(route, <<>>, body, 500,
                             [message |-> "Failed to translate text"], "Error")
                ELSE Respond(route, <<>>, body, 200,
                             Spread([success |-> TRUE], aiCall'.value), "none")

PostGeminiAnalyzeEmergency(text, key, upstream) ==
    LET route == "POST /api/gemini/analyze-emergency"
        body == [text |-> text]
    IN  IF Missing(text)
        THEN /\ ServiceNotCalled
             /\ Respond(route, <<>>, body, 400, [message |-> "Text is required"], "none")
        ELSE /\ GeminiService_analyzeEmergencyText(text, key, upstream)
             /\ IF aiCall'.settled = "rejected"
                THEN Respond(route, <<>>, body, 500,
                             [message |-> "Failed to analyze emergency text"], "Error")
                ELSE Respond(route, <<>>, body, 200,
                             Spread([success |-> TRUE], aiCall'.value), "none")

\* analysis.emergencyIndicators.length throws a TypeError when the analysis
\* has no emergencyIndicators; the handler's catch answers that with 500.
\* const { imageData } = req.body: undefined when the body has no such field.
PostAnalyzeSceneBody(body, key, upstream) ==
    LET route == "POST /api/ai/analyze-scene"
        imageData == IF "imageData" \in DOMAIN body THEN body.imageData ELSE NotPassed
        failed == [message |-> "Failed to analyze scene"]
    IN  IF Missing(imageData)
        THEN /\ ServiceNotCalled
             /\ Respond(route, <<>>, body, 400, [message |-> "Image data is required"], "none")
        ELSE /\ GeminiService_analyzeImage(imageData, key, upstream)
             /\ IF aiCall'.settled = "rejected"
                THEN Respond(route, <<>>, body, 500, failed, "Error")
                ELSE IF "emergencyIndicators" \notin DOMAIN aiCall'.value
                THEN Respond(route, <<>>, body, 500, failed, "TypeError")
                ELSE LET analysis == aiCall'.value
                     IN  Respond(route, <<>>, body, 200,
                                 [success |-> TRUE,
                                  analysis |-> analysis.description,
                                  emergencyType |-> IF Len(analysis.emergencyIndicators) > 0
                                                    THEN "detected" ELSE "none",
                                  confidence |-> IF analysis.severity = "critical" THEN 9
                                                 ELSE IF analysis.severity = "high" THEN 7
                                                 ELSE 3,
                                  emergencyIndicators |-> analysis.emergencyIndicators,
                                  recommendations |-> analysis.recommendations,
                                  severity |-> analysis.severity],
                                 "none")

PostAnalyzeScene(imageData, key, upstream) ==
    PostAnalyzeSceneBody([imageData |-> imageData], key, upstream)

PostGeminiChat(message, key, upstream) ==
    LET route == "POST /api/gemini/chat"
        body == [message |-> message]
    IN  IF Missing(message)
        THEN /\ ServiceNotCalled
             /\ Respond(route, <<>>, body, 400, [message |-> "Message is required"], "none")
        ELSE /\ GeminiService_chat(message, key, upstream)
             /\ IF aiCall'.settled = "rejected"
                THEN Respond(route, <<>>, body, 500,
                             [message |-> "Failed to generate response"], "Error")
                ELSE Respond(route, <<>>, body, 200,
                             [success |-> TRUE, response |-> aiCall'.value,
                              timestamp |-> clock], "none")

\* req.body.text, .message and .imageData: absent, empty, two values.
BodyTexts == {NotPassed, "", "help, fire", "hola"}

\* req.body.targetLanguage
TargetLanguages == {NotPassed, "es", "fr"}

NextGemini ==
    \/ \E t \in BodyTexts, l \in TargetLanguages, k \in BOOLEAN, u \in Upstreams :
          PostGeminiTranslate(t, l, k, u)
    \/ \E t \in BodyTexts, k \in BOOLEAN, u \in Upstreams :
          PostGeminiAnalyzeEmergency(t, k, u)
    \/ \E i \in BodyTexts, k \in BOOLEAN, u \in Upstreams : PostAnalyzeScene(i, k, u)
    \/ \E m \in BodyTexts, k \in BOOLEAN, u \in Upstreams : PostGeminiChat(m, k, u)

SpecGemini == Init /\ [][NextGemini]_vars

-----------------------------------------------------------------------------
(* client/src/services/translation-service.ts: TranslationService.  Texts,   *)
(* language codes and phrases are sequences of characters where the code     *)
(* lower-cases, searches or concatenates them.                                *)

\* The translation cache is capped at MaxCache entries.
MaxCache == 2

\* The characters of the language codes and phrase keys the model uses.
Chars ==
    [en |-> <<"e", "n">>,
     fr |-> <<"f", "r">>,
     de |-> <<"d", "e">>,
     help |-> <<"h", "e", "l", "p">>,
     emergency |-> <<"e", "m", "e", "r", "g", "e", "n", "c", "y">>,
     fire |-> <<"f", "i", "r", "e">>,
     medical |-> <<"m", "e", "d", "i", "c", "a", "l">>,
     police |-> <<"p", "o", "l", "i", "c", "e">>,
     ambulance |-> <<"a", "m", "b", "u", "l", "a", "n", "c", "e">>,
     earthquake |-> <<"e", "a", "r", "t", "h", "q", "u", "a", "k", "e">>,
     flood |-> <<"f", "l", "o", "o", "d">>,
     tornado |-> <<"t", "o", "r", "n", "a", "d", "o">>]

\* data/languages.ts, emergencyPhrases: the entries of `en` and `fr` for the
\* keys that occur in the model's texts (help, fire, police).  `de` has no entry.
emergencyPhrases ==
    [en |->
        [help |-> <<"H", "e", "l", "p", "!">>,
         fire |-> <<"F", "i", "r", "e", "!">>,
         police |-> <<"C", "a", "l", "l", " ", "p", "o", "l", "i", "c", "e", "!">>],
     fr |->
        [help |-> <<"A", "i", "d", "e", "z", "-", "m", "o", "i", "!">>,
         fire |-> <<"F", "e", "u", "!">>,
         police |-> <<"A", "p", "p", "e", "l", "e", "z", " ", "l", "a", " ",
                      "p", "o", "l", "i", "c", "e", "!">>]]

\* phrases?.[key] || key
getEmergencyPhrase(code, key) ==
    IF code \in DOMAIN emergencyPhrases /\ key \in DOMAIN emergencyPhrases[code]
    THEN emergencyPhrases[code][key]
    ELSE Chars[key]

UpperCase == <<"A", "B", "C", "D", "E", "F", "G", "H", "I", "J", "K", "L", "M",
               "N", "O", "P", "Q", "R", "S", "T", "U", "V", "W", "X", "Y", "Z">>
LowerCase == <<"a", "b", "c", "d", "e", "f", "g", "h", "i", "j", "k", "l", "m",
               "n", "o", "p", "q", "r", "s", "t", "u", "v", "w", "x", "y", "z">>

\* String.prototype.toLowerCase
ToLowerCase(str) ==
    [i \in 1..Len(str) |->
        IF \E n \in 1..Len(UpperCase) : UpperCase[n] = str[i]
        THEN LowerCase[CHOOSE n \in 1..Len(UpperCase) : UpperCase[n] = str[i]]
        ELSE str[i]]

\* String.prototype.includes
Includes(str, sub) ==
    \E i \in 0..(Len(str) - Len(sub)) : SubSeq(str, i + 1, i + Len(sub)) = sub

emergencyKeys == <<"help", "emergency", "fire", "medical", "police", "ambulance",
                   "earthquake", "flood", "tornado">>

\* fallbackTranslation returned null.
NoFallback == [null |-> TRUE]

\* fallbackTranslation searching the text as typed, without toLowerCase.
fallbackTranslation_CaseSensitive(text, targetLanguage, sourceLanguage) ==
    LET hits == SelectSeq(emergencyKeys,
                          LAMBDA key : /\ Includes(text, Chars[key])
                                       /\ getEmergencyPhrase(targetLanguage, key) # Chars[key])
    IN  IF hits = <<>>
        THEN NoFallback
        ELSE [success |-> TRUE,
              translatedText |-> getEmergencyPhrase(targetLanguage, Head(hits)),
              sourceLanguage |-> sourceLanguage,
              targetLanguage |-> targetLanguage,
              confidence |-> 8]

\* The first key, in the order of emergencyKeys, that the lower-cased text
\* includes and that the target language has a phrase for.
fallbackTranslation(text, targetLanguage, sourceLanguage) ==
    LET lowerText == ToLowerCase(text)
        hits == SelectSeq(emergencyKeys,
                          LAMBDA key : /\ Includes(lowerText, Chars[key])
                                       /\ getEmergencyPhrase(targetLanguage, key) # Chars[key])
    IN  IF hits = <<>>
        THEN NoFallback
        ELSE [success |-> TRUE,
              translatedText |-> getEmergencyPhrase(targetLanguage, Head(hits)),
              sourceLanguage |-> sourceLanguage,
              targetLanguage |-> targetLanguage,
              confidence |-> 8]

\* What POST /api/ai/translate answers (server/routes.ts): a stub.
AiTranslateStub(text, targetLanguage) ==
    [success |-> TRUE,
     translatedText |-> <<"[">> \o Chars[targetLanguage] \o <<"]", " ">> \o text,
     sourceLanguage |-> "en"]

\* `${sourceLanguage}-${targetLanguage}-${text}`
CacheKey(text, targetLanguage, sourceLanguage) ==
    Chars[sourceLanguage] \o <<"-">> \o Chars[targetLanguage] \o <<"-">> \o text

\* translateText; `upstream` is whether apiRequest and response.json() succeed
\* ("ok") or one of them throws ("fails").  initialize() only waits.
TranslationService_translateText(text, targetLanguage, sourceLanguage, upstream) ==
    LET cacheKey == CacheKey(text, targetLanguage, sourceLanguage)
        fallbackResult == fallbackTranslation(text, targetLanguage, sourceLanguage)
        Done(requested, ret) ==
            tCall' = [method |-> "translateText", text |-> text,
                      targetLanguage |-> targetLanguage, sourceLanguage |-> sourceLanguage,
                      requested |-> requested, upstream |-> upstream, ret |-> ret]
    IN  /\ tIsInitialized' = TRUE
        /\ UNCHANGED <<storageVars, call, created, res, geminiVars, inflight, pageVars>>
        /\ IF cacheKey \in DOMAIN translationCache
           THEN /\ Done(FALSE, translationCache[cacheKey])
                /\ UNCHANGED translationCache
           ELSE IF upstream = "ok"
           THEN /\ Cardinality(DOMAIN translationCache) < MaxCache
                /\ translationCache' =
                      MapSet(translationCache, cacheKey, AiTranslateStub(text, targetLanguage))
                /\ Done(TRUE, AiTranslateStub(text, targetLanguage))
           ELSE /\ UNCHANGED translationCache
                /\ IF fallbackResult # NoFallback
                   THEN Done(TRUE, fallbackResult)
                   ELSE Done(TRUE, [success |-> FALSE,
                                    translatedText |-> text,
                                    sourceLanguage |-> sourceLanguage,
                                    targetLanguage |-> targetLanguage,
                                    confidence |-> 0])

\* The texts translated: a key; in capitals; the English phrase itself; another
\* key; two keys, the later one of emergencyKeys first; no key; empty.
Texts ==
    {<<"h", "e", "l", "p">>,
     <<"H", "E", "L", "P">>,
     <<"H", "e", "l", "p", "!">>,
     <<"f", "i", "r", "e">>,
     <<"p", "o", "l", "i", "c", "e", " ", "f", "i", "r", "e">>,
     <<"n", "o">>,
     <<>>}

\* Target languages: two with phrases, one without.
ClientLanguages == {"en", "fr", "de"}

TranslateText ==
    \E t \in Texts, l \in ClientLanguages, u \in {"ok", "fails"} :
        TranslationService_translateText(t, l, "en", u)

\* TranslationService.clearCache
ClearCache ==
    /\ translationCache' = <<>>
    /\ tCall' = [method |-> "clearCache"]
    /\ UNCHANGED <<storageVars, call, created, res, geminiVars, tIsInitialized, inflight,
                   pageVars>>

NextTranslate == TranslateText \/ ClearCache

SpecTranslate == Init /\ [][NextTranslate]_vars

-----------------------------------------------------------------------------
(* The exported `storage` object called without a route in front of it: the  *)
(* objects it is handed have not passed a schema, so they may carry keys the  *)
(* schemas strip, `id` among them.                                            *)

\* createUser arguments: carrying the id of a seed protocol; carrying the first
\* id a create hands out, and a createdAt; carrying no id.
DirectUsers ==
    {[username |-> "alice", password |-> "pw", id |-> 1],
     [username |-> "bob", password |-> "pw", id |-> 9, createdAt |-> 0,
      accessibilitySettings |-> {"largeText:true"}],
     [username |-> "carol", password |-> "pw"]}

\* createEmergencyProtocol argument: carrying the id of a seed protocol.
DirectProtocols ==
    {[type |-> "storm", name |-> "Storm", instructions |-> [steps |-> <<"Stay inside">>],
      severity |-> "medium", category |-> "natural", id |-> 2]}

\* createEmergencyContact argument: carrying the id of a seed contact.
DirectContacts ==
    {[name |-> "Emergency", phoneNumber |-> "112", type |-> "general", country |-> "CA",
      id |-> 5]}

\* createUserSession arguments: with actions and the first id a create hands
\* out; without actions or id.
DirectSessions ==
    {[sessionData |-> {"mode:text"}, actions |-> <<"a1">>, id |-> 9, endTime |-> 3],
     [sessionData |-> {"mode:voice"}]}

\* Update payloads with a JSON-valued field; for a user also one carrying the
\* id of a seed protocol.
DirectUserPatches ==
    {[accessibilitySettings |-> {"highContrast:true"}],
     [preferredLanguage |-> "fr", id |-> 1]}
DirectProtocolPatches == {[instructions |-> [warnings |-> <<"Do not use lifts">>]]}
DirectSessionPatches == {[actions |-> <<"a2">>], [emergencyType |-> "fire"]}

\* The ids the direct updates name: a seed protocol, the two ids creates hand out.
DirectUpdateIds == {1, 9, 10}

CallCreateUser(insertUser) ==
    /\ currentId <= MaxId
    /\ createUser(insertUser)
    /\ res' = [route |-> "none"]
    /\ UNCHANGED inflight

CallCreateEmergencyProtocol(insertProtocol) ==
    /\ currentId <= MaxId
    /\ createEmergencyProtocol(insertProtocol)
    /\ res' = [route |-> "none"]
    /\ UNCHANGED inflight

CallCreateEmergencyContact(insertContact) ==
    /\ currentId <= MaxId
    /\ createEmergencyContact(insertContact)
    /\ res' = [route |-> "none"]
    /\ UNCHANGED inflight

CallCreateUserSession(insertSession) ==
    /\ currentId <= MaxId
    /\ createUserSession(insertSession)
    /\ res' = [route |-> "none"]
    /\ UNCHANGED inflight

CallUpdateUser(id, updateUser_) ==
    /\ updateUser(id, updateUser_)
    /\ res' = [route |-> "none"]
    /\ UNCHANGED inflight

CallUpdateUserSession(id, updateSession) ==
    /\ updateUserSession(id, updateSession)
    /\ res' = [route |-> "none"]
    /\ UNCHANGED inflight

NextDirect ==
    \/ \E u \in DirectUsers : CallCreateUser(u)
    \/ \E p \in DirectProtocols : CallCreateEmergencyProtocol(p)
    \/ \E c \in DirectContacts : CallCreateEmergencyContact(c)
    \/ \E s \in DirectSessions : CallCreateUserSession(s)
    \/ \E id \in DirectUpdateIds, u \in DirectUserPatches : CallUpdateUser(id, u)
    \/ \E id \in DirectUpdateIds, p \in DirectProtocolPatches :
          CallUpdateEmergencyProtocol(id, p)
    \/ \E id \in DirectUpdateIds, s \in DirectSessionPatches : CallUpdateUserSession(id, s)

SpecDirect == Init /\ [][NextDirect]_vars

\* The storage-backed handlers when the storage promise may reject, as the
\* interface IStorage allows.
NextFault ==
    \/ \E p \in PathParams, f \in BOOLEAN : GetUser(p, f)
    \/ \E b \in UserBodies, f \in BOOLEAN : PostUsers(b, f)
    \/ \E p \in PathParams, b \in UserPatches, f \in BOOLEAN : PutUser(p, b, f)
    \/ \E f \in BOOLEAN : GetEmergencyProtocols(f)
    \/ \E t \in ProtocolTypes, f \in BOOLEAN : GetEmergencyProtocolByType(t, f)
    \/ \E b \in ProtocolBodies, f \in BOOLEAN : PostEmergencyProtocols(b, f)
    \/ \E c \in Countries, f \in BOOLEAN : GetEmergencyContacts(c, f)
    \/ \E t \in ContactTypes, c \in Countries, f \in BOOLEAN :
          GetEmergencyContactsByType(t, c, f)
    \/ \E b \in ContactBodies, f \in BOOLEAN : PostEmergencyContacts(b, f)
    \/ \E b \in SessionBodies, f \in BOOLEAN : PostUserSessions(b, f)
    \/ \E p \in PathParams, f \in BOOLEAN : GetUserSessions(p, f)
    \/ \E p \in PathParams, b \in SessionPatches, f \in BOOLEAN : PutUserSession(p, b, f)

SpecFault == Init /\ [][NextFault]_vars

-----------------------------------------------------------------------------
(* Properties *)

AllKeys ==
    (DOMAIN users) \cup (DOMAIN emergencyProtocols) \cup (DOMAIN emergencyContacts)
        \cup (DOMAIN userSessions)

CreateMethods ==
    {"createUser", "createEmergencyProtocol", "createEmergencyContact", "createUserSession"}

UpdateMethods ==
    {"updateUser", "updateEmergencyProtocol", "updateEmergencyContact", "updateUserSession"}

\* C1: in every reachable state of MemStorage no id is a key of more than one
\* of the four maps, and currentId is strictly greater than every key in use.
C1_IdsUniqueBelowCounter ==
    /\ (DOMAIN users) \cap (DOMAIN emergencyProtocols) = {}
    /\ (DOMAIN users) \cap (DOMAIN emergencyContacts) = {}
    /\ (DOMAIN users) \cap (DOMAIN userSessions) = {}
    /\ (DOMAIN emergencyProtocols) \cap (DOMAIN emergencyContacts) = {}
    /\ (DOMAIN emergencyProtocols) \cap (DOMAIN userSessions) = {}
    /\ (DOMAIN emergencyContacts) \cap (DOMAIN userSessions) = {}
    /\ \A k \in AllKeys : k < currentId

\* C1 witness: a user and a session were created after the seeds, and a record
\* has since been updated.
C1_Witness ==
    /\ users # <<>>
    /\ userSessions # <<>>
    /\ call.method \in UpdateMethods
    /\ call.id \in AllKeys

\* C2: the user createUser returns has an id strictly greater than the id
\* returned by every earlier create call of any entity kind.
C2_CreateUserIdIncreases ==
    call.method = "createUser" =>
        /\ created[Len(created)] = call.ret.id
        /\ \A i \in 1..(Len(created) - 1) : created[i] < call.ret.id

\* C2 witness: createUser has just returned, after a create of another kind.
C2_Witness ==
    /\ call.method = "createUser"
    /\ Len(created) = 2
    /\ created[1] \in DOMAIN emergencyContacts
    /\ created[2] \in DOMAIN users

\* C3: updateUser on an existing id stores and returns a record that keeps
\* every field absent from the payload and takes every field the payload has;
\* no other record and not the counter changes.
C3_UpdateUserMerges ==
    [][(call'.method = "updateUser" /\ call'.id \in DOMAIN users) =>
          LET id == call'.id
              payload == call'.arg
              before == users[id]
              after == users'[id]
          IN  /\ call'.ret = after
              /\ DOMAIN users' = DOMAIN users
              /\ DOMAIN after = (DOMAIN before) \cup (DOMAIN payload)
              /\ \A f \in (DOMAIN before) \ (DOMAIN payload) : after[f] = before[f]
              /\ \A f \in DOMAIN payload : after[f] = payload[f]
              /\ \A k \in (DOMAIN users) \ {id} : users'[k] = users[k]
              /\ UNCHANGED <<emergencyProtocols, emergencyContacts, userSessions, currentId>>
      ]_vars

\* C3 witness: a PUT changed only the language of the second of two users, who
\* keeps the name, password and settings given at creation.
C3_Witness ==
    /\ res.route = "PUT /api/users/:id"
    /\ res.status = 200
    /\ call.arg = [preferredLanguage |-> "fr"]
    /\ call.ret.username = "bob"
    /\ call.ret.accessibilitySettings = {"largeText:true"}
    /\ Cardinality(DOMAIN users) = 2

\* C4: for an id that is no key of the user map, getUser returns undefined,
\* GET /api/users/:id answers 404 and storage is unchanged.
C4_GetUserUnknown ==
    [][(res'.route = "GET /api/users/:id" /\ ParseInt(res'.param) \notin DOMAIN users) =>
          /\ call'.method = "getUser"
          /\ call'.ret = Undefined
          /\ res'.status = 404
          /\ UNCHANGED storageVars
      ]_vars

\* C4 witness: a 404 for an id that belongs to a session while a user is stored.
C4_Witness ==
    /\ res.route = "GET /api/users/:id"
    /\ res.status = 404
    /\ ParseInt(res.param) \in DOMAIN userSessions
    /\ users # <<>>

\* C5: an update method called with an id that is no key of its map returns
\* undefined and changes neither the maps nor the counter; a PUT route then
\* answers 404.
C5_UpdateUnknown ==
    [][(/\ call'.method \in UpdateMethods
        /\ call'.id \notin DOMAIN (CASE call'.method = "updateUser" -> users
                                     [] call'.method = "updateEmergencyProtocol" ->
                                            emergencyProtocols
                                     [] call'.method = "updateEmergencyContact" ->
                                            emergencyContacts
                                     [] OTHER -> userSessions)) =>
          /\ call'.ret = Undefined
          /\ UNCHANGED storageVars
          /\ res'.route # "none" => res'.status = 404
      ]_vars

\* C5 witness: PUT /api/user-sessions/:id answered 404 for the id of a user.
C5_Witness ==
    /\ res.route = "PUT /api/user-sessions/:id"
    /\ res.status = 404
    /\ call.method = "updateUserSession"
    /\ call.id \in DOMAIN users

\* C6: getEmergencyContacts(c) for a non-empty c returns exactly the stored
\* contacts whose country is c, and without a country every stored contact.
C6_ContactsByCountry ==
    (call.method = "getEmergencyContacts" /\ call.arg # "") =>
        LET stored == {emergencyContacts[k] : k \in DOMAIN emergencyContacts}
            wanted == IF call.arg = NotPassed
                      THEN stored
                      ELSE {contact \in stored : contact.country = call.arg}
        IN  /\ Range(call.ret) = wanted
            /\ Len(call.ret) = Cardinality(wanted)

\* C6 witness: after a contact of CA was created and a seed contact moved to
\* CA, the query for CA returned two contacts while others are of US.
C6_Witness ==
    /\ call.method = "getEmergencyContacts"
    /\ call.arg = "CA"
    /\ Len(call.ret) = 2
    /\ \E k \in DOMAIN emergencyContacts : emergencyContacts[k].country = "US"

\* C7: POST /api/emergency-protocols with a body that lacks a required column
\* (severity, say) answers 400, stores nothing and leaves the counter.
C7_InvalidProtocolRejected ==
    [][(/\ res'.route = "POST /api/emergency-protocols"
        /\ ~({"type", "name", "instructions", "severity", "category"}
                \subseteq DOMAIN res'.body)) =>
          /\ res'.status = 400
          /\ UNCHANGED storageVars
      ]_vars

\* C7 witness: a body without severity was answered 400.
C7_Witness ==
    /\ res.route = "POST /api/emergency-protocols"
    /\ "severity" \notin DOMAIN res.body
    /\ res.status = 400

AiRoutes ==
    {"POST /api/gemini/translate", "POST /api/gemini/analyze-emergency",
     "POST /api/ai/analyze-scene", "POST /api/gemini/chat"}

\* C8: a storage-backed handler answers 400 to a schema validation failure,
\* 500 to any other thrown error, 404 when storage returned undefined, 201 to
\* a create and 200 otherwise.
C8_StatusMapsOutcome ==
    res.route \notin ({"none"} \cup AiRoutes) =>
        res.status =
            CASE res.threw = "ZodError" -> 400
              [] res.threw = "Error" -> 500
              [] /\ res.threw = "none"
                 /\ call.method \in {"getUser", "getEmergencyProtocolByType", "updateUser",
                                     "updateUserSession"}
                 /\ call.ret = Undefined -> 404
              [] res.threw = "none" /\ call.method \in CreateMethods -> 201
              [] OTHER -> 200


GeminiMethods == {"translateText", "analyzeEmergencyText", "analyzeImage"}

\* C9 (as stated): whenever the upstream request of translateText fails, the
\* result has the input text as translatedText and confidence 0.
C9_OriginalTextOnFailure ==
    (tCall.method = "translateText" /\ tCall.requested /\ tCall.upstream = "fails") =>
        /\ tCall.ret.translatedText = tCall.text
        /\ tCall.ret.confidence = 0

\* C9 (amended): when the upstream request fails, the result is the target
\* language's phrase for the first emergency key the lower-cased text
\* contains and the language has a phrase for, with confidence 0.8; only when
\* there is no such key is it the input text with confidence 0.
C9_PhraseOrOriginalOnFailure ==
    (tCall.method = "translateText" /\ tCall.requested /\ tCall.upstream = "fails") =>
        LET lower == ToLowerCase(tCall.text)
            target == tCall.targetLanguage
            Hit(i) == /\ Includes(lower, Chars[emergencyKeys[i]])
                      /\ target \in DOMAIN emergencyPhrases
                      /\ emergencyKeys[i] \in DOMAIN emergencyPhrases[target]
                      /\ emergencyPhrases[target][emergencyKeys[i]] # Chars[emergencyKeys[i]]
            hits == {i \in 1..Len(emergencyKeys) : Hit(i)}
            first == CHOOSE i \in hits : \A j \in hits : i <= j
        IN  IF hits = {}
            THEN /\ tCall.ret.translatedText = tCall.text
                 /\ tCall.ret.confidence = 0
                 /\ ~tCall.ret.success
            ELSE /\ tCall.ret.translatedText = emergencyPhrases[target][emergencyKeys[first]]
                 /\ tCall.ret.confidence = 8
                 /\ tCall.ret.success

\* C9 witness: the request failed for a text that names two keys, and the
\* French phrase of the one that comes first in emergencyKeys came back.
C9_Witness ==
    /\ tCall.method = "translateText"
    /\ tCall.requested
    /\ tCall.upstream = "fails"
    /\ tCall.targetLanguage = "fr"
    /\ Includes(tCall.text, Chars["police"])
    /\ tCall.ret.translatedText = emergencyPhrases["fr"]["fire"]
    /\ tCall.ret.confidence = 8

\* C10 (as stated): translateText, analyzeEmergencyText and analyzeImage never
\* reject, and their routes answer 200.
C10_NeverRejects ==
    aiCall.method \in GeminiMethods =>
        /\ aiCall.settled = "resolved"
        /\ res.status = 200

\* C10 (amended): once the client exists, or GEMINI_API_KEY is set so that
\* initialize creates it, the three methods resolve, and when generateContent
\* throws or answers text that is not JSON they resolve to their default and
\* the route answers 200; with no client and no key they reject and the route
\* answers 500.
C10_DefaultOnceInitialized ==
    [][aiCall'.method \in GeminiMethods =>
          LET ready == (isInitialized /\ ai) \/ aiCall'.key
              default ==
                  CASE aiCall'.method = "translateText" ->
                           [translatedText |-> aiCall'.arg[1], sourceLanguage |-> "unknown",
                            confidence |-> 0]
                    [] aiCall'.method = "analyzeEmergencyText" ->
                           [isEmergency |-> FALSE, emergencyType |-> "general",
                            severity |-> "low", confidence |-> 0,
                            recommendations |-> <<"Unable to analyze emergency status">>]
                    [] OTHER ->
                           [description |-> "Unable to analyze image",
                            emergencyIndicators |-> <<>>,
                            recommendations |->
                                <<"Unable to analyze image for emergency indicators">>,
                            severity |-> "low"]
          IN  IF ready
              THEN /\ aiCall'.settled = "resolved"
                   /\ aiCall'.upstream \in {"throws", "malformed"} =>
                         /\ aiCall'.value = default
                         /\ res'.status = 200
              ELSE /\ aiCall'.settled = "rejected"
                   /\ res'.status = 500
      ]_vars

\* C10 witness: with the client initialized, generateContent threw inside
\* translateText, which resolved to the original text, and the route said 200.
C10_Witness ==
    /\ aiCall.method = "translateText"
    /\ aiCall.upstream = "throws"
    /\ aiCall.settled = "resolved"
    /\ aiCall.value.translatedText = aiCall.arg[1]
    /\ aiCall.value.confidence = 0
    /\ res.status = 200


\* The map a create or update method works on, before and after the step.
MapOf(method) ==
    CASE method \in {"createUser", "updateUser"} -> users
      [] method \in {"createEmergencyProtocol", "updateEmergencyProtocol"} -> emergencyProtocols
      [] method \in {"createEmergencyContact", "updateEmergencyContact"} -> emergencyContacts
      [] OTHER -> userSessions

MapOfNext(method) ==
    CASE method \in {"createUser", "updateUser"} -> users'
      [] method \in {"createEmergencyProtocol", "updateEmergencyProtocol"} -> emergencyProtocols'
      [] method \in {"createEmergencyContact", "updateEmergencyContact"} -> emergencyContacts'
      [] OTHER -> userSessions'

\* C11: a create stores and returns its record under the counter value it
\* allocates, whatever id the input carries, and every record that existed
\* before the call is still stored unchanged under its id.
C11_CreateAllocatesId ==
    [][call'.method \in CreateMethods =>
          /\ call'.ret.id = currentId
          /\ currentId \notin AllKeys
          /\ currentId \in DOMAIN MapOfNext(call'.method)
          /\ MapOfNext(call'.method)[currentId] = call'.ret
          /\ \A k \in DOMAIN users : k \in DOMAIN users' /\ users'[k] = users[k]
          /\ \A k \in DOMAIN emergencyProtocols :
                k \in DOMAIN emergencyProtocols'
                    /\ emergencyProtocols'[k] = emergencyProtocols[k]
          /\ \A k \in DOMAIN emergencyContacts :
                k \in DOMAIN emergencyContacts' /\ emergencyContacts'[k] = emergencyContacts[k]
          /\ \A k \in DOMAIN userSessions :
                k \in DOMAIN userSessions' /\ userSessions'[k] = userSessions[k]
      ]_vars

\* C11 witness: createUser was handed the id of a stored session; the user got
\* the next counter value and the session is still stored.
C11_Witness ==
    /\ call.method = "createUser"
    /\ "id" \in DOMAIN call.arg
    /\ call.arg.id \in DOMAIN userSessions
    /\ call.ret.id # call.arg.id
    /\ call.ret.id \in DOMAIN users
    /\ call.arg.id \notin DOMAIN users

\* C12: no step removes a key from any of the four maps.
C12_NeverDeleted ==
    [][/\ DOMAIN users \subseteq DOMAIN users'
       /\ DOMAIN emergencyProtocols \subseteq DOMAIN emergencyProtocols'
       /\ DOMAIN emergencyContacts \subseteq DOMAIN emergencyContacts'
       /\ DOMAIN userSessions \subseteq DOMAIN userSessions'
      ]_vars

\* C12 witness: a contact created after the seeds has been updated, and the
\* seeds and a later record are all still stored.
C12_Witness ==
    /\ call.method = "updateEmergencyContact"
    /\ call.id = 9
    /\ DOMAIN emergencyContacts = {5, 6, 7, 8, 9}
    /\ DOMAIN emergencyProtocols = {1, 2, 3, 4}
    /\ 10 \in AllKeys

\* C13: no two stored users have the same username.
C13_UsernamesUnique ==
    \A i, j \in DOMAIN users : users[i].username = users[j].username => i = j

JsonFields == {"actions", "accessibilitySettings", "instructions"}

\* C15: after an update of an existing record whose payload has a JSON-valued
\* field, the stored field equals the payload's value exactly.
C15_JsonFieldsReplaced ==
    [][(call'.method \in UpdateMethods /\ call'.id \in DOMAIN MapOf(call'.method)) =>
          \A f \in JsonFields \cap DOMAIN call'.arg :
              MapOfNext(call'.method)[call'.id][f] = call'.arg[f]
      ]_vars

\* C15 witness: a session created with one action was updated with a payload
\* of another action, which is all it holds now.
C15_Witness ==
    /\ call.method = "updateUserSession"
    /\ call.id \in DOMAIN userSessions
    /\ userSessions[call.id].sessionData = {"mode:text"}
    /\ call.arg = [actions |-> <<"a2">>]
    /\ userSessions[call.id].actions = <<"a2">>

\* C16: right after construction the protocol map holds five protocols, the
\* contact map four contacts, and the user and session maps are empty.
C16_SeedsFiveAndFour ==
    call.method = "constructor" =>
        /\ Cardinality(DOMAIN emergencyProtocols) = 5
        /\ Cardinality(DOMAIN emergencyContacts) = 4
        /\ DOMAIN users = {}
        /\ DOMAIN userSessions = {}

\* C20: a PUT /api/user-sessions/:id answered 200 whose body carries endTime
\* leaves that endTime in the stored session.
C20_PutStoresEndTime ==
    [][(/\ res'.route = "PUT /api/user-sessions/:id"
        /\ res'.status = 200
        /\ "endTime" \in DOMAIN res'.body) =>
          userSessions'[ParseInt(res'.param)].endTime = res'.body.endTime
      ]_vars


-----------------------------------------------------------------------------
(* Requests under way at the same time.  A handler is an async function: it  *)
(* runs without interruption up to an `await` whose promise is not settled    *)
(* by then, and again from there once the promise has settled.  A storage     *)
(* method of MemStorage has no await in its body, so the whole method runs    *)
(* inside the handler's first stretch.                                         *)

\* The other slot.
Other(slot) == 3 - slot

\* A request that has been accepted and not answered.
Busy(request) == request.pc \in {"queued", "awaiting", "upstream", "running"}

\* No handler is on the stack: a stretch of a handler starts only then.
ThreadFree == \A slot \in Slots : inflight[slot].pc # "running"

PutRoutes == {"PUT /api/users/:id", "PUT /api/user-sessions/:id"}

\* The PUT requests each client sends: one on user 9 and one on session 10,
\* the two clients changing different fields of the record.
ClientRequests ==
    [slot \in Slots |->
        IF slot = 1
        THEN {[route |-> "PUT /api/users/:id", param |-> <<"9">>,
               body |-> [preferredLanguage |-> "fr"]],
              [route |-> "PUT /api/user-sessions/:id", param |-> <<"1", "0">>,
               body |-> [actions |-> <<"a1">>]]}
        ELSE {[route |-> "PUT /api/users/:id", param |-> <<"9">>,
               body |-> [username |-> "carol"]],
              [route |-> "PUT /api/user-sessions/:id", param |-> <<"1", "0">>,
               body |-> [emergencyType |-> "fire"]]}]

\* The request a client sends to the chat endpoint.
ChatRequests ==
    {[route |-> "POST /api/gemini/chat", param |-> <<>>, body |-> [message |-> "help, fire"]]}

\* Express hands the request to its handler.  Two fields are history:
\* `overlapped`, that the other client's request was under way at some moment
\* of this one's life, and `createdBefore`, how many creates had returned
\* when the handler last ran.
Arrive(slot, request) ==
    /\ ThreadFree
    /\ ~Busy(inflight[slot])
    /\ inflight' =
          [s \in Slots |->
              IF s = slot
              THEN [pc |-> "queued", route |-> request.route, param |-> request.param,
                    body |-> request.body, overlapped |-> Busy(inflight[Other(slot)]),
                    createdBefore |-> Len(created), result |-> Undefined]
              ELSE IF Busy(inflight[s])
              THEN [inflight[s] EXCEPT !.overlapped = TRUE]
              ELSE inflight[s]]
    /\ UNCHANGED <<storageVars, call, created, res, geminiVars, clientVars>>

\* The answer of a PUT handler, given what storage returned.
PutAnswer(request, result, threw) ==
    [route |-> request.route, param |-> request.param, body |-> request.body,
     status |-> IF threw # "none" THEN 400 ELSE IF result = Undefined THEN 404 ELSE 200,
     json |-> IF threw # "none"
              THEN [message |-> IF request.route = "PUT /api/users/:id"
                                THEN "Invalid user data" ELSE "Invalid session data"]
              ELSE IF result = Undefined
              THEN [message |-> IF request.route = "PUT /api/users/:id"
                                THEN "User not found" ELSE "Session not found"]
              ELSE result,
     threw |-> threw]

\* A PUT handler up to `await storage.updateX(id, data)`: parseInt, the schema,
\* and the storage method, which runs to its end before the handler waits.
HandlePut(slot) ==
    LET request == inflight[slot]
        isUser == request.route = "PUT /api/users/:id"
        schema == Partial(IF isUser THEN insertUserSchema ELSE insertUserSessionSchema)
        id == ParseInt(request.param)
    IN  /\ ThreadFree
        /\ request.pc = "queued"
        /\ request.route \in PutRoutes
        /\ IF ~Accepts(schema, request.body)
           THEN /\ NotCalled
                /\ res' = PutAnswer(request, Undefined, "ZodError")
                /\ inflight' = [inflight EXCEPT ![slot].pc = "done"]
           ELSE /\ IF isUser
                   THEN updateUser(id, Parse(schema, request.body))
                   ELSE updateUserSession(id, Parse(schema, request.body))
                /\ inflight' = [inflight EXCEPT ![slot].pc = "awaiting",
                                                ![slot].result = call'.ret]
                /\ UNCHANGED res

\* A PUT handler after its await, writing back the record it awaited.
ResumePut_WritesBack(slot) ==
    LET request == inflight[slot]
        id == ParseInt(request.param)
    IN  /\ ThreadFree
        /\ request.pc = "awaiting"
        /\ request.route \in PutRoutes
        /\ res' = PutAnswer(request, request.result, "none")
        /\ inflight' = [inflight EXCEPT ![slot].pc = "done"]
        /\ IF request.result = Undefined
           THEN UNCHANGED <<users, userSessions>>
           ELSE IF request.route = "PUT /api/users/:id"
           THEN users' = MapSet(users, id, request.result) /\ UNCHANGED userSessions
           ELSE userSessions' = MapSet(userSessions, id, request.result) /\ UNCHANGED users
        /\ UNCHANGED <<emergencyProtocols, emergencyContacts, currentId, clock, call, created,
                       geminiVars, clientVars>>

\* A PUT handler after its await: it answers with what storage returned.
ResumePut(slot) ==
    LET request == inflight[slot]
    IN  /\ ThreadFree
        /\ request.pc = "awaiting"
        /\ request.route \in PutRoutes
        /\ res' = PutAnswer(request, request.result, "none")
        /\ inflight' = [inflight EXCEPT ![slot].pc = "done"]
        /\ UNCHANGED <<storageVars, call, created, geminiVars, clientVars>>


\* The chat handler up to the upstream call, holding the thread until the
\* answer is there instead of awaiting it.
HandleChat_Blocking(slot, key) ==
    LET request == inflight[slot]
        head == Prepared(key)
    IN  /\ ThreadFree
        /\ request.pc = "queued"
        /\ request.route = "POST /api/gemini/chat"
        /\ isInitialized' = head.isInitialized
        /\ ai' = head.ai
        /\ aiCall' = [method |-> "chat", arg |-> request.body.message, key |-> key,
                      upstream |-> IF head.threw THEN "not called" ELSE "pending",
                      settled |-> IF head.threw THEN "rejected" ELSE "pending",
                      value |-> <<>>]
        /\ inflight' = [inflight EXCEPT ![slot].createdBefore = Len(created),
                                        ![slot].pc =
                                            IF head.threw THEN "awaiting" ELSE "running",
                                        ![slot].result = IF head.threw THEN Threw ELSE Undefined]
        /\ UNCHANGED <<storageVars, call, created, res, clientVars>>

\* The chat handler up to `await this.ai.models.generateContent(...)` inside
\* geminiService.chat: the upstream call is made and the handler waits.  When
\* initialize throws, the promise of chat is rejected without a call.
HandleChat(slot, key) ==
    LET request == inflight[slot]
        head == Prepared(key)
    IN  /\ ThreadFree
        /\ request.pc = "queued"
        /\ request.route = "POST /api/gemini/chat"
        /\ isInitialized' = head.isInitialized
        /\ ai' = head.ai
        /\ aiCall' = [method |-> "chat", arg |-> request.body.message, key |-> key,
                      upstream |-> IF head.threw THEN "not called" ELSE "pending",
                      settled |-> IF head.threw THEN "rejected" ELSE "pending",
                      value |-> <<>>]
        /\ inflight' = [inflight EXCEPT ![slot].createdBefore = Len(created),
                                        ![slot].pc =
                                            IF head.threw THEN "awaiting" ELSE "upstream",
                                        ![slot].result = IF head.threw THEN Threw ELSE Undefined]
        /\ UNCHANGED <<storageVars, call, created, res, clientVars>>

\* generateContent settles; nothing makes it.  chat's promise settles with it.
UpstreamSettles(slot, upstream) ==
    LET request == inflight[slot]
    IN  /\ ThreadFree
        /\ request.pc = "upstream"
        /\ inflight' =
              [inflight EXCEPT
                  ![slot].pc = "awaiting",
                  ![slot].result =
                      CASE upstream = "throws" -> Threw
                        [] upstream = "no text" ->
                               [text |-> "I apologize, but I couldn't process your request "
                                             \o "right now."]
                        [] OTHER -> [text |-> "Stay calm and call 911."]]
        /\ UNCHANGED <<storageVars, call, created, res, geminiVars, clientVars>>

\* The chat handler after `await geminiService.chat(...)`.
ResumeChat(slot) ==
    LET request == inflight[slot]
    IN  /\ ThreadFree
        /\ request.pc = "awaiting"
        /\ request.route = "POST /api/gemini/chat"
        /\ res' = IF request.result = Threw
                  THEN [route |-> request.route, param |-> <<>>, body |-> request.body,
                        status |-> 500, json |-> [message |-> "Failed to generate response"],
                        threw |-> "Error"]
                  ELSE [route |-> request.route, param |-> <<>>, body |-> request.body,
                        status |-> 200,
                        json |-> [success |-> TRUE, response |-> request.result.text,
                                  timestamp |-> clock],
                        threw |-> "none"]
        /\ inflight' = [inflight EXCEPT ![slot].pc = "done"]
        /\ UNCHANGED <<storageVars, call, created, geminiVars, clientVars>>

\* Requests of further clients, whose handlers' awaits settle at once.
OtherUserBodies == {[username |-> "alice", password |-> "pw"]}
OtherSessionBodies == {[sessionData |-> {"mode:voice"}]}
OtherParams == {<<"9">>}

OtherPostUsers(body) == ThreadFree /\ PostUsers(body, FALSE)
OtherPostUserSessions(body) == ThreadFree /\ PostUserSessions(body, FALSE)
OtherGetUser(param) == ThreadFree /\ GetUser(param, FALSE)

\* Two clients sending PUTs while users and sessions are created.
NextAsync ==
    \/ \E slot \in Slots : \E request \in ClientRequests[slot] : Arrive(slot, request)
    \/ \E slot \in Slots : HandlePut(slot)
    \/ \E slot \in Slots : ResumePut(slot)
    \/ \E body \in OtherUserBodies : OtherPostUsers(body)
    \/ \E body \in OtherSessionBodies : OtherPostUserSessions(body)

SpecAsync == Init /\ [][NextAsync]_vars

\* Clients asking the chat endpoint, whose upstream call may never return,
\* while other requests come in.
NextHung ==
    \/ \E slot \in Slots, request \in ChatRequests : Arrive(slot, request)
    \/ \E slot \in Slots, key \in BOOLEAN : HandleChat(slot, key)
    \/ \E slot \in Slots, upstream \in {"throws", "no text", "text"} :
          UpstreamSettles(slot, upstream)
    \/ \E slot \in Slots : ResumeChat(slot)
    \/ \E body \in OtherUserBodies : OtherPostUsers(body)
    \/ \E body \in OtherSessionBodies : OtherPostUserSessions(body)
    \/ \E param \in OtherParams : OtherGetUser(param)

SpecHung == Init /\ [][NextHung]_vars


\* Both clients' PUTs on one record, changing different fields, were under
\* way together and have both been answered 200.
ConcurrentPutsDone ==
    /\ \A slot \in Slots :
          /\ inflight[slot].pc = "done"
          /\ inflight[slot].route \in PutRoutes
          /\ inflight[slot].overlapped
          /\ inflight[slot].result # Undefined
    /\ inflight[1].route = inflight[2].route
    /\ inflight[1].param = inflight[2].param
    /\ (DOMAIN inflight[1].body) \cap (DOMAIN inflight[2].body) = {}

\* The record a PUT request names, as stored now.
StoredRecord(request) ==
    IF request.route = "PUT /api/users/:id"
    THEN users[ParseInt(request.param)]
    ELSE userSessions[ParseInt(request.param)]

\* C14 (as stated): two concurrent PUTs on one record, each changing a
\* different field, leave the record without one of the two changes.
C14_ConcurrentPutsLoseAChange ==
    ConcurrentPutsDone =>
        \E slot \in Slots : \E f \in DOMAIN inflight[slot].body :
            StoredRecord(inflight[slot])[f] # inflight[slot].body[f]

\* C14 (amended): in every interleaving of two concurrent PUTs on one record,
\* each changing a different field, the stored record has both changes once
\* both are answered.
C14_ConcurrentPutsKeepBoth ==
    ConcurrentPutsDone =>
        \A slot \in Slots : \A f \in DOMAIN inflight[slot].body :
            StoredRecord(inflight[slot])[f] = inflight[slot].body[f]

\* C14 witness: the PUTs of the language and of the name of user 9 overlapped,
\* both are answered, and the user has both.
C14_Witness ==
    /\ ConcurrentPutsDone
    /\ inflight[1].route = "PUT /api/users/:id"
    /\ users[9].preferredLanguage = "fr"
    /\ users[9].username = "carol"

\* An AI request whose upstream call has been made and has not returned.
Hung(slot) == inflight[slot].pc \in {"upstream", "running"}

\* C17: while a chat request waits on its upstream call, the handlers of
\* other requests can run; a request handled meanwhile is answered from the
\* storage state alone and leaves the waiting request as it is; and no step
\* of the chat request changes storage.
C17_HungCallBlocksOnlyItself ==
    /\ [](\A slot \in Slots : Hung(slot) =>
            /\ \A param \in OtherParams : ENABLED OtherGetUser(param)
            /\ currentId <= MaxId =>
                  \A body \in OtherSessionBodies : ENABLED OtherPostUserSessions(body))
    /\ [][\A slot \in Slots :
            /\ (Hung(slot) /\ inflight' = inflight) =>
                  /\ res'.route = "GET /api/users/:id" =>
                        LET id == ParseInt(res'.param)
                        IN  /\ UNCHANGED storageVars
                            /\ res'.status = IF id \in DOMAIN users THEN 200 ELSE 404
                            /\ id \in DOMAIN users => res'.json = users[id]
                  /\ res'.route = "POST /api/user-sessions" =>
                        /\ res'.status = 201
                        /\ res'.json.id = currentId
                        /\ userSessions' = MapSet(userSessions, currentId, res'.json)
                        /\ UNCHANGED <<users, emergencyProtocols, emergencyContacts>>
                  /\ res'.route = "POST /api/users" =>
                        /\ res'.status = 201
                        /\ res'.json.id = currentId
                        /\ users' = MapSet(users, currentId, res'.json)
                        /\ UNCHANGED <<userSessions, emergencyProtocols, emergencyContacts>>
            /\ (/\ inflight'[slot] # inflight[slot]
                /\ inflight'[slot].route = "POST /api/gemini/chat") =>
                  UNCHANGED storageVars
         ]_vars

\* C17 witness: a chat request is waiting on its upstream call, and since its
\* handler made the call a session has been created and answered 201.
C17_Witness ==
    /\ Hung(1)
    /\ Len(created) > inflight[1].createdBefore
    /\ res.route = "POST /api/user-sessions"
    /\ res.status = 201
    /\ res.json.id = created[Len(created)]

\* ---------------------------------------------------------------------------
\* client/src/use-accessibility.ts and App.tsx: the accessibility settings.
\* Every component that calls useAccessibility() gets its own useState; the
\* instances share only the localStorage item 'accessibility-settings'.
\* Of the eight settings the model keeps the two that App's effect reads; the
\* other six are stored and merged alike.
\* ---------------------------------------------------------------------------

SettingKeys == {"highContrast", "largeText"}

defaultSettings == [key \in SettingKeys |-> FALSE]

\* The components that change settings: the settings page and the
\* AccessibilityControls panel. App only reads its instance.
Callers == Components \ {"App"}

Mounted(component) == hookState[component].mounted

\* All mounted components have run their pending effects.
EffectsHaveRun ==
    \A component \in Components :
        Mounted(component) => hookState[component].effects = "none"

\* App's effect: classList.add / classList.remove for the two classes.
ApplyClasses(settings) ==
    {class \in {"high-contrast", "large-text"} :
        \/ class = "high-contrast" /\ settings["highContrast"]
        \/ class = "large-text" /\ settings["largeText"]}

\* First render of a component: useState(defaultSettings); the effects of the
\* mount are pending. Pages and panels render inside App.
Mount(component) ==
    /\ ~Mounted(component)
    /\ component # "App" => Mounted("App")
    /\ hookState' = [hookState EXCEPT ![component] =
            [mounted |-> TRUE, accessibilitySettings |-> defaultSettings,
             effects |-> "mount"]]
    /\ UNCHANGED <<savedSettings, rootClasses>>
    /\ UNCHANGED <<storageVars, call, created, res, geminiVars, inflight>>
    /\ UNCHANGED <<tIsInitialized, translationCache, tCall, emergencyVars, homeVars>>

\* A page or panel leaves the screen; its state is discarded.
Unmount(component) ==
    /\ component \in Callers
    /\ Mounted(component)
    /\ hookState' = [hookState EXCEPT ![component] = Unmounted]
    /\ UNCHANGED <<savedSettings, rootClasses>>
    /\ UNCHANGED <<storageVars, call, created, res, geminiVars, inflight>>
    /\ UNCHANGED <<tIsInitialized, translationCache, tCall, emergencyVars, homeVars>>

\* The effects of one commit of a component, in declaration order.
\* On mount: the load effect reads the item and, when there is one, sets the
\* state to {...defaultSettings, ...parsed} (a new render, whose effects are
\* pending); the save effect writes the rendered settings; App's effect
\* applies the classes of the rendered settings.
\* After a change: the save effect and App's effect run on the new settings.
RunEffects(component) ==
    /\ Mounted(component)
    /\ hookState[component].effects # "none"
    /\ LET state == hookState[component]
           rendered == state.accessibilitySettings
           loads == state.effects = "mount" /\ savedSettings.item
       IN  /\ savedSettings' = [item |-> TRUE, value |-> rendered]
           /\ rootClasses' = IF component = "App" THEN ApplyClasses(rendered)
                             ELSE rootClasses
           /\ hookState' = [hookState EXCEPT ![component] =
                   IF loads
                   THEN [state EXCEPT
                           !.accessibilitySettings =
                               Spread(defaultSettings, savedSettings.value),
                           !.effects = "changed"]
                   ELSE [state EXCEPT !.effects = "none"]]
    /\ UNCHANGED <<storageVars, call, created, res, geminiVars, inflight>>
    /\ UNCHANGED <<tIsInitialized, translationCache, tCall, emergencyVars, homeVars>>

\* setAccessibilitySettings(next): a new object, so the effects that depend on
\* it run after the render. Events are handled once the mount effects ran.
SetAccessibilitySettings(component, next) ==
    /\ component \in Callers
    /\ Mounted(component)
    /\ hookState[component].effects # "mount"
    /\ hookState' = [hookState EXCEPT ![component] =
            [@ EXCEPT !.accessibilitySettings = next, !.effects = "changed"]]
    /\ UNCHANGED <<savedSettings, rootClasses>>
    /\ UNCHANGED <<storageVars, call, created, res, geminiVars, inflight>>
    /\ UNCHANGED <<tIsInitialized, translationCache, tCall, emergencyVars, homeVars>>

updateSetting(component, key, value) ==
    SetAccessibilitySettings(component,
        [hookState[component].accessibilitySettings EXCEPT ![key] = value])

toggleSetting(component, key) ==
    SetAccessibilitySettings(component,
        [hookState[component].accessibilitySettings EXCEPT ![key] = ~@])

resetSettings(component) ==
    SetAccessibilitySettings(component, defaultSettings)

NextA11y ==
    \/ \E component \in Components : Mount(component)
    \/ \E component \in Callers : Unmount(component)
    \/ \E component \in Components : RunEffects(component)
    \/ \E component \in Callers, key \in SettingKeys, value \in BOOLEAN :
            updateSetting(component, key, value)
    \/ \E component \in Callers, key \in SettingKeys :
            toggleSetting(component, key)
    \/ \E component \in Callers : resetSettings(component)

SpecA11y == Init /\ [][NextA11y]_vars

\* C18: once the effects have run, the document root has the class
\* 'high-contrast' exactly when the highContrast setting of every mounted
\* component's hook is on, and the class 'large-text' exactly when its
\* largeText setting is on.
C18_RootClassesFollowSettings ==
    (Mounted("App") /\ EffectsHaveRun) =>
        \A component \in Components :
            Mounted(component) =>
                LET settings == hookState[component].accessibilitySettings
                IN  /\ "high-contrast" \in rootClasses <=> settings["highContrast"]
                    /\ "large-text" \in rootClasses <=> settings["largeText"]

\* ---------------------------------------------------------------------------
\* client/src/services/gemini-service.ts: EmergencyService sessions.
\* An action is kept as its type; a session as its id and its actions.
\* sessionLog is a history variable: `open` from the startSession call that
\* gives the service its session to the endSession call, and `actions` the
\* actions passed to logEmergencyAction while it is open.
\* ---------------------------------------------------------------------------

MaxActions == 3

ActionTypes == {"protocol_activation", "voice_command"}

\* The session the server answers POST /api/user-sessions with.
ServerSession == [session |-> TRUE, id |-> "server", actions |-> <<>>]

\* { id: Date.now(), sessionData, startTime, actions: [] }
LocalSession == [session |-> TRUE, id |-> "Date.now()", actions |-> <<>>]

\* startSession up to its awaits (getCurrentLocation, then the POST when
\* navigator.onLine). `posted`: the POST and response.json() succeed.
startSession(online, posted) ==
    /\ sessionCall = Idle
    /\ sessionCall' = [pc |-> "starting", assigns |-> online /\ posted]
    /\ sessionLog' = IF (online /\ posted) \/ currentSession = NoSession
                     THEN [open |-> TRUE, actions |-> <<>>]
                     ELSE sessionLog
    /\ UNCHANGED <<currentSession, actionHistory, persisted>>
    /\ UNCHANGED <<storageVars, call, created, res, geminiVars, inflight>>
    /\ UNCHANGED <<tIsInitialized, translationCache, tCall, a11yVars, homeVars>>

\* startSession after its awaits: the server's session, else a local one
\* if (!this.currentSession). actionHistory is left as it is.
startSession_Resume ==
    /\ sessionCall.pc = "starting"
    /\ currentSession' = IF sessionCall.assigns THEN ServerSession
                         ELSE IF currentSession = NoSession THEN LocalSession
                         ELSE currentSession
    /\ sessionCall' = Idle
    /\ UNCHANGED <<actionHistory, sessionLog, persisted>>
    /\ UNCHANGED <<storageVars, call, created, res, geminiVars, inflight>>
    /\ UNCHANGED <<tIsInitialized, translationCache, tCall, a11yVars, homeVars>>

\* logEmergencyAction: push, and currentSession.actions = this.actionHistory
\* when there is a session. Nothing follows its await of storeAction.
logEmergencyAction(action) ==
    /\ Len(actionHistory) < MaxActions
    /\ actionHistory' = Append(actionHistory, action)
    /\ currentSession' = IF currentSession = NoSession THEN currentSession
                         ELSE [currentSession EXCEPT !.actions = actionHistory']
    /\ sessionLog' = IF sessionLog.open
                     THEN [sessionLog EXCEPT !.actions = Append(@, action)]
                     ELSE sessionLog
    /\ UNCHANGED <<sessionCall, persisted>>
    /\ UNCHANGED <<storageVars, call, created, res, geminiVars, inflight>>
    /\ UNCHANGED <<tIsInitialized, translationCache, tCall, a11yVars, homeVars>>

\* What endSession hands to the PUT and to offlineService.storeSession.
Written == [sent |-> TRUE, id |-> currentSession.id, actions |-> actionHistory]

\* endSession up to its first await: the PUT of { endTime, actions:
\* this.actionHistory } when navigator.onLine (a failed PUT is only warned
\* about), else offlineService.storeSession.
endSession(online, put) ==
    /\ sessionCall = Idle
    /\ currentSession # NoSession
    /\ sessionLog' = [sessionLog EXCEPT !.open = FALSE]
    /\ IF online
       THEN /\ sessionCall' = [pc |-> "ending"]
            /\ persisted' = [put |-> IF put THEN Written ELSE NotSent,
                             stored |-> NotSent]
       ELSE /\ sessionCall' = [pc |-> "stored"]
            /\ persisted' = [put |-> NotSent, stored |-> Written]
    /\ UNCHANGED <<currentSession, actionHistory>>
    /\ UNCHANGED <<storageVars, call, created, res, geminiVars, inflight>>
    /\ UNCHANGED <<tIsInitialized, translationCache, tCall, a11yVars, homeVars>>

\* endSession after the PUT: offlineService.storeSession({...currentSession,
\* endTime, actions: this.actionHistory}), which catches its own failures.
endSession_Store ==
    /\ sessionCall.pc = "ending"
    /\ persisted' = [persisted EXCEPT !.stored = Written]
    /\ sessionCall' = [pc |-> "stored"]
    /\ UNCHANGED <<currentSession, actionHistory, sessionLog>>
    /\ UNCHANGED <<storageVars, call, created, res, geminiVars, inflight>>
    /\ UNCHANGED <<tIsInitialized, translationCache, tCall, a11yVars, homeVars>>

\* endSession after storeSession: currentSession = null; actionHistory = [].
endSession_Resume ==
    /\ sessionCall.pc = "stored"
    /\ currentSession' = NoSession
    /\ actionHistory' = <<>>
    /\ sessionCall' = Idle
    /\ UNCHANGED <<sessionLog, persisted>>
    /\ UNCHANGED <<storageVars, call, created, res, geminiVars, inflight>>
    /\ UNCHANGED <<tIsInitialized, translationCache, tCall, a11yVars, homeVars>>

NextEmergency ==
    \/ \E online \in BOOLEAN, posted \in BOOLEAN : startSession(online, posted)
    \/ startSession_Resume
    \/ \E action \in ActionTypes : logEmergencyAction(action)
    \/ \E online \in BOOLEAN, put \in BOOLEAN : endSession(online, put)
    \/ endSession_Store
    \/ endSession_Resume

SpecEmergency == Init /\ [][NextEmergency]_vars

\* C19: what endSession wrote to the offline store, and to the server when
\* its PUT went through, is exactly the sequence of actions passed to
\* logEmergencyAction between that session's startSession and the endSession
\* call, in call order.
C19_EndSessionPersistsSessionActions ==
    (sessionCall = Idle /\ ~sessionLog.open /\ persisted.stored.sent) =>
        /\ persisted.stored.actions = sessionLog.actions
        /\ persisted.put.sent => persisted.put.actions = sessionLog.actions

\* The keys of the stored protocols of a type.
KeysOfType(type) ==
    {k \in DOMAIN emergencyProtocols : emergencyProtocols[k].type = type}

\* The earliest-created stored protocol of a type: ids are handed out in
\* creation order.
EarliestOfType(type) ==
    emergencyProtocols[CHOOSE k \in KeysOfType(type) : \A j \in KeysOfType(type) : k <= j]

\* C21: createEmergencyProtocol stores a protocol whose type is already
\* stored; getEmergencyProtocolByType(type) and GET
\* /api/emergency-protocols/:type return the earliest-created protocol of the
\* type, and getEmergencyProtocols returns every stored protocol, the later
\* ones of a type included.
C21_EarliestOfTypeWins ==
    /\ call.method = "createEmergencyProtocol" =>
          /\ call.ret.id \in KeysOfType(call.arg.type)
          /\ emergencyProtocols[call.ret.id] = call.ret
    /\ (call.method = "getEmergencyProtocolByType" /\ KeysOfType(call.arg) # {}) =>
          call.ret = EarliestOfType(call.arg)
    /\ (res.route = "GET /api/emergency-protocols/:type" /\ KeysOfType(res.param) # {}) =>
          /\ res.status = 200
          /\ res.json = EarliestOfType(res.param)
    /\ call.method = "getEmergencyProtocols" =>
          Range(call.ret) = {emergencyProtocols[k] : k \in DOMAIN emergencyProtocols}

\* C21 witness: two protocols of type fire are stored, the seed and a created
\* one, and GET /api/emergency-protocols/fire answered with the seed.
C21_Witness ==
    /\ res.route = "GET /api/emergency-protocols/:type"
    /\ res.param = "fire"
    /\ Cardinality(KeysOfType("fire")) = 2
    /\ res.status = 200
    /\ res.json.id = 1
    /\ \E k \in KeysOfType("fire") : k > 1 /\ emergencyProtocols[k].name = "Kitchen fire"

\* ---------------------------------------------------------------------------
\* client/src/services/gemini-service.ts: EmergencyService.initialize, as
\* Home's mount effect calls it. A call is "not called", "services" (awaiting
\* the AI, translation and offline services), "starting" (awaiting
\* startSession) or settled: "returned", "done", "threw".
\* ---------------------------------------------------------------------------

\* initialize up to its first await: if (this.isInitialized) return.
EmergencyService_initialize(c) ==
    /\ initializeCalls[c] = "not called"
    /\ initializeCalls' = [initializeCalls EXCEPT ![c] =
            IF serviceInitialized THEN "returned" ELSE "services"]
    /\ UNCHANGED <<serviceInitialized, startSessionRuns, serverSessions>>
    /\ UNCHANGED <<otherVars, emergencyVars, besidesInit>>

\* The three service initializations settle: a rejection is rethrown with
\* isInitialized left false, otherwise startSession is called.
ServicesSettle(c, ready) ==
    /\ initializeCalls[c] = "services"
    /\ initializeCalls' = [initializeCalls EXCEPT ![c] =
            IF ready THEN "starting" ELSE "threw"]
    /\ startSessionRuns' = IF ready THEN startSessionRuns + 1 ELSE startSessionRuns
    /\ UNCHANGED <<serviceInitialized, serverSessions>>
    /\ UNCHANGED <<otherVars, emergencyVars, besidesInit>>

\* startSession returns to initialize: the server's session when the POST
\* went through, else a local one if there is none; then isInitialized = true.
StartSessionReturns(c, online, posted) ==
    /\ initializeCalls[c] = "starting"
    /\ currentSession' = IF online /\ posted THEN ServerSession
                         ELSE IF currentSession = NoSession THEN LocalSession
                         ELSE currentSession
    /\ serverSessions' = IF online /\ posted THEN serverSessions + 1 ELSE serverSessions
    /\ serviceInitialized' = TRUE
    /\ initializeCalls' = [initializeCalls EXCEPT ![c] = "done"]
    /\ UNCHANGED <<startSessionRuns, actionHistory, sessionCall, sessionLog, persisted>>
    /\ UNCHANGED <<otherVars, besidesInit>>

NextInitialize ==
    \/ \E c \in InitializeCalls : EmergencyService_initialize(c)
    \/ \E c \in InitializeCalls, ready \in BOOLEAN : ServicesSettle(c, ready)
    \/ \E c \in InitializeCalls, online \in BOOLEAN, posted \in BOOLEAN :
            StartSessionReturns(c, online, posted)

SpecInitialize == Init /\ [][NextInitialize]_vars

\* C22: however the calls of initialize overlap, startSession runs at most
\* once and at most one session is created on the server.
C22_OneSessionPerService ==
    /\ startSessionRuns <= 1
    /\ serverSessions <= 1

\* ---------------------------------------------------------------------------
\* Home, useEmergencyProtocols and EmergencyGuidance: the guidance panel.
\* Home renders <EmergencyGuidance protocol={currentProtocol}> without a key
\* once a protocol is active, so the panel's state lives across protocol
\* changes. A step is kept as its protocol and position.
\* ---------------------------------------------------------------------------

\* client/src/data/emergency-protocols.ts: the number of instructions.steps of
\* each protocol.
StepCount ==
    [type \in {"fire", "medical", "earthquake", "flood", "tornado"} |->
        IF type = "fire" THEN 5 ELSE 6]

\* getEmergencyProtocol(type) is defined: the type has a protocol. The server's
\* protocols add no type that the quick actions offer.
HasProtocol(type) == type \in DOMAIN StepCount

\* The types the quick actions offer; 'accident' has no protocol.
QuickActionTypes == {"fire", "medical", "earthquake", "flood", "tornado", "accident"}

\* protocol.instructions.steps of the protocol on display.
steps == [i \in 1..StepCount[currentProtocol] |-> <<currentProtocol, i>>]

\* activateProtocol(type): sets the hook's protocol; the panel's
\* currentStepIndex and completedSteps are not touched.
activateProtocol(type) ==
    /\ currentProtocol' = IF HasProtocol(type) THEN type ELSE currentProtocol
    /\ UNCHANGED <<currentStepIndex, completedSteps>>
    /\ UNCHANGED <<otherVars, emergencyVars, besidesGuidance>>

handleNextStep ==
    /\ currentProtocol # Null
    /\ currentStepIndex' = IF currentStepIndex < Len(steps) - 1
                           THEN currentStepIndex + 1 ELSE currentStepIndex
    /\ UNCHANGED <<currentProtocol, completedSteps>>
    /\ UNCHANGED <<otherVars, emergencyVars, besidesGuidance>>

handlePreviousStep ==
    /\ currentProtocol # Null
    /\ currentStepIndex' = IF currentStepIndex > 0
                           THEN currentStepIndex - 1 ELSE currentStepIndex
    /\ UNCHANGED <<currentProtocol, completedSteps>>
    /\ UNCHANGED <<otherVars, emergencyVars, besidesGuidance>>

\* handleStepComplete(stepIndex) from the button of the current step: the
\* step is taken off the completed ones or put at their end.
handleStepComplete ==
    /\ currentProtocol # Null
    /\ completedSteps' =
            IF currentStepIndex \in Range(completedSteps)
            THEN SelectSeq(completedSteps, LAMBDA s : s # currentStepIndex)
            ELSE Append(completedSteps, currentStepIndex)
    /\ UNCHANGED <<currentProtocol, currentStepIndex>>
    /\ UNCHANGED <<otherVars, emergencyVars, besidesGuidance>>

NextGuidance ==
    \/ \E type \in QuickActionTypes : activateProtocol(type)
    \/ handleNextStep
    \/ handlePreviousStep
    \/ handleStepComplete

SpecGuidance == Init /\ [][NextGuidance]_vars

\* C23: while the guidance panel is shown, 0 <= currentStepIndex <
\* steps.length of the protocol on display, so that steps[currentStepIndex],
\* a JavaScript index from 0, is defined.
C23_StepIndexInRange ==
    currentProtocol # Null =>
        /\ 0 <= currentStepIndex
        /\ currentStepIndex < Len(steps)
        /\ currentStepIndex + 1 \in DOMAIN steps

\* ---------------------------------------------------------------------------
\* client/src/components/voice-interface.tsx: a completed transcript, with
\* detectEmergencyType of useEmergencyProtocols and
\* AIService.processVoiceCommand. Transcripts are tuples of characters.
\* ---------------------------------------------------------------------------

MaxCommands == 3

\* The keywords detectEmergencyType looks for, by the type it returns, in the
\* order of its tests.
EmergencyKeywords ==
    <<[type |-> "fire",
       words |-> {<<"f", "i", "r", "e">>,
                  <<"s", "m", "o", "k", "e">>,
                  <<"b", "u", "r", "n", "i", "n", "g">>}],
      [type |-> "medical",
       words |-> {<<"m", "e", "d", "i", "c", "a", "l">>,
                  <<"h", "u", "r", "t">>,
                  <<"i", "n", "j", "u", "r", "e", "d">>,
                  <<"c", "h", "e", "s", "t", " ", "p", "a", "i", "n">>,
                  <<"h", "e", "a", "r", "t", " ", "a", "t", "t", "a", "c", "k">>,
                  <<"s", "t", "r", "o", "k", "e">>}],
      [type |-> "earthquake",
       words |-> {<<"e", "a", "r", "t", "h", "q", "u", "a", "k", "e">>,
                  <<"s", "h", "a", "k", "i", "n", "g">>}],
      [type |-> "flood",
       words |-> {<<"f", "l", "o", "o", "d">>,
                  <<"w", "a", "t", "e", "r">>}],
      [type |-> "tornado",
       words |-> {<<"t", "o", "r", "n", "a", "d", "o">>,
                  <<"t", "w", "i", "s", "t", "e", "r">>}]>>

\* The text contains one of the keywords of detectEmergencyType.
HasEmergencyKeyword(text) ==
    \E i \in DOMAIN EmergencyKeywords :
        \E word \in EmergencyKeywords[i].words : Includes(ToLowerCase(text), word)

\* detectEmergencyType: the type of the first test that finds a keyword in
\* the lower-cased text, and 'medical' when none does.
detectEmergencyType(text) ==
    LET lowerText == ToLowerCase(text)
        hits == {i \in DOMAIN EmergencyKeywords :
                    \E word \in EmergencyKeywords[i].words : Includes(lowerText, word)}
    IN  IF hits = {} THEN "medical"
        ELSE EmergencyKeywords[CHOOSE i \in hits : \A j \in hits : i <= j].type

\* AIService.processVoiceCommand: the intent of the transcript.
AIService_processVoiceCommand(transcript) ==
    LET lowerTranscript == ToLowerCase(transcript)
    IN  IF Includes(lowerTranscript, <<"h", "e", "l", "p">>) \/ Includes(lowerTranscript, <<"e", "m", "e", "r", "g", "e", "n", "c", "y">>)
        THEN "emergency_help"
        ELSE IF Includes(lowerTranscript, <<"c", "a", "l", "l">>) THEN "emergency_call"
        ELSE IF Includes(lowerTranscript, <<"t", "r", "a", "n", "s", "l", "a", "t", "e">>) THEN "translate"
        ELSE IF Includes(lowerTranscript, <<"g", "u", "i", "d", "a", "n", "c", "e">>)
                \/ Includes(lowerTranscript, <<"i", "n", "s", "t", "r", "u", "c", "t", "i", "o", "n", "s">>)
        THEN "emergency_guidance"
        ELSE "unknown"

\* String.prototype.trim() leaves nothing.
IsBlank(text) == \A i \in DOMAIN text : text[i] = " "

\* Completed transcripts: a request to translate; a question; a fire; a call
\* for help; a keyword inside a sentence, in capitals; a blank.
Transcripts ==
    {<<"t", "r", "a", "n", "s", "l", "a", "t", "e", " ", "t", "h", "i", "s">>,
     <<"w", "h", "a", "t", " ", "t", "i", "m", "e">>,
     <<"F", "i", "r", "e">>,
     <<"h", "e", "l", "p", " ", "m", "e">>,
     <<"W", "A", "T", "E", "R", " ", "r", "i", "s", "i", "n", "g">>,
     <<" ", " ">>}

\* processVoiceCommand up to its await of aiService.processVoiceCommand: a
\* blank command returns at once; else detectEmergencyType is taken.
processVoiceCommand(command) ==
    /\ voiceCall = Idle
    /\ ~IsBlank(command)
    /\ Len(voiceCallbacks) < MaxCommands
    /\ voiceCall' = [pc |-> "processing", command |-> command,
                     emergencyType |-> detectEmergencyType(command)]
    /\ UNCHANGED <<voiceCallbacks, guidanceVars>>
    /\ UNCHANGED <<otherVars, emergencyVars, besidesVoice>>

\* processVoiceCommand after the await: onEmergencyDetected(emergencyType),
\* which in Home activates the protocol of the type, when the intent is
\* 'emergency_help' or the type is not 'general'; else onVoiceCommand(command).
processVoiceCommand_Resume ==
    /\ voiceCall.pc = "processing"
    /\ LET aiResult == [intent |-> AIService_processVoiceCommand(voiceCall.command)]
           emergencyType == voiceCall.emergencyType
       IN  IF aiResult.intent = "emergency_help" \/ emergencyType # "general"
           THEN /\ voiceCallbacks' = Append(voiceCallbacks,
                        [callback |-> "onEmergencyDetected",
                         command |-> voiceCall.command, type |-> emergencyType])
                /\ currentProtocol' = IF HasProtocol(emergencyType) THEN emergencyType
                                      ELSE currentProtocol
           ELSE /\ voiceCallbacks' = Append(voiceCallbacks,
                        [callback |-> "onVoiceCommand",
                         command |-> voiceCall.command, type |-> emergencyType])
                /\ UNCHANGED currentProtocol
    /\ voiceCall' = Idle
    /\ UNCHANGED <<currentStepIndex, completedSteps>>
    /\ UNCHANGED <<otherVars, emergencyVars, besidesVoice>>

NextVoice ==
    \/ \E command \in Transcripts : processVoiceCommand(command)
    \/ processVoiceCommand_Resume

SpecVoice == Init /\ [][NextVoice]_vars

\* C24: a completed transcript without emergency keyword and without the
\* intent 'emergency_help' is handed to onVoiceCommand, not to
\* onEmergencyDetected.
C24_PlainCommandForwarded ==
    \A i \in DOMAIN voiceCallbacks :
        LET made == voiceCallbacks[i]
        IN  (/\ ~HasEmergencyKeyword(made.command)
             /\ AIService_processVoiceCommand(made.command) # "emergency_help") =>
                made.callback = "onVoiceCommand"

\* ---------------------------------------------------------------------------
\* client/src/services/ai-service.ts: AIService.analyzeScene and the route
\* it posts to. apiRequest is not among the sources: whether it rejects on a
\* response that is not 2xx is left open.
\* ---------------------------------------------------------------------------

\* Non-empty images, as the base64 text analyzeScene sends.
Images == {"data:image/png;base64,AAAA", "data:image/jpeg;base64,BBBB"}

\* analyzeScene up to its await of the response: POST /api/ai/analyze-scene
\* with the body { image: imageBase64 }, as the server handles it.
AIService_analyzeScene(imageBase64, key, upstream) ==
    PostAnalyzeSceneBody([image |-> imageBase64], key, upstream)

\* What the catch block of analyzeScene returns.
SceneAnalysisFailed ==
    [success |-> FALSE, analysis |-> "Scene analysis failed",
     emergencyType |-> "unknown", confidence |-> 0]

\* analyzeScene after the await: response.json(), or the failure default when
\* apiRequest rejected.
AIService_analyzeScene_Resume(rejectsNotOk) ==
    /\ res.route = "POST /api/ai/analyze-scene"
    /\ "image" \in DOMAIN res.body
    /\ sceneAnalysis' =
            [returned |-> TRUE, image |-> res.body.image,
             value |-> IF res.status # 200 /\ rejectsNotOk THEN SceneAnalysisFailed
                       ELSE res.json]
    /\ UNCHANGED <<otherVars, emergencyVars, besidesScene>>

NextScene ==
    \/ \E image \in Images, k \in BOOLEAN, u \in Upstreams :
            AIService_analyzeScene(image, k, u)
    \/ \E rejectsNotOk \in BOOLEAN : AIService_analyzeScene_Resume(rejectsNotOk)
    \/ NextGemini

SpecScene == Init /\ [][NextScene]_vars

\* C25: the request analyzeScene sends for a non-empty image is not answered
\* 400 'Image data is required', and analyzeScene returns the server's
\* analysis, not the failure default with emergencyType 'unknown'.
C25_SceneRequestAccepted ==
    /\ (res.route = "POST /api/ai/analyze-scene" /\ "image" \in DOMAIN res.body) =>
            res.status # 400
    /\ sceneAnalysis.returned =>
            /\ "emergencyType" \in DOMAIN sceneAnalysis.value
            /\ sceneAnalysis.value.emergencyType # "unknown"

\* C26: in every map the record stored under a key k has the id k; an update
\* whose payload carries an id leaves the stored record's id as it was.
C26_StoredIdIsKey ==
    /\ \A k \in DOMAIN users : users[k].id = k
    /\ \A k \in DOMAIN emergencyProtocols : emergencyProtocols[k].id = k
    /\ \A k \in DOMAIN emergencyContacts : emergencyContacts[k].id = k
    /\ \A k \in DOMAIN userSessions : userSessions[k].id = k

\* ---------------------------------------------------------------------------
\* client/src/hooks/use-device-status.ts: useDeviceStatus.
\* ---------------------------------------------------------------------------

\* Math.round(battery.level * 100) as the Battery API reports it: around the
\* two thresholds of checkBatteryLevel, and full.
BatteryLevels == {0, 9, 10, 19, 20, 100}

\* updateBatteryStatus, on getBattery, chargingchange and levelchange.
updateBatteryStatus(level, charging) ==
    /\ deviceStatus' = [deviceStatus EXCEPT !.batteryLevel = level, !.isCharging = charging]
    /\ UNCHANGED batteryCheck
    /\ UNCHANGED <<otherVars, emergencyVars, besidesDevice>>

enablePowerSavingMode ==
    /\ deviceStatus' = [deviceStatus EXCEPT !.powerSavingMode = TRUE,
                                            !.currentModel = "Gemma-3n-2B"]
    /\ UNCHANGED batteryCheck
    /\ UNCHANGED <<otherVars, emergencyVars, besidesDevice>>

disablePowerSavingMode ==
    /\ deviceStatus' = [deviceStatus EXCEPT !.powerSavingMode = FALSE,
                                            !.currentModel = "Gemma-3n-4B"]
    /\ UNCHANGED batteryCheck
    /\ UNCHANGED <<otherVars, emergencyVars, besidesDevice>>

switchToLightModel ==
    /\ deviceStatus' = [deviceStatus EXCEPT !.currentModel = "Gemma-3n-2B",
                                            !.modelPerformance = "good"]
    /\ UNCHANGED batteryCheck
    /\ UNCHANGED <<otherVars, emergencyVars, besidesDevice>>

switchToFullModel ==
    /\ deviceStatus' = [deviceStatus EXCEPT !.currentModel = "Gemma-3n-4B",
                                            !.modelPerformance = "optimal"]
    /\ UNCHANGED batteryCheck
    /\ UNCHANGED <<otherVars, emergencyVars, besidesDevice>>

\* checkBatteryLevel: the test for 'low' comes first.
checkBatteryLevel ==
    LET batteryLevel == deviceStatus.batteryLevel
        isCharging == deviceStatus.isCharging
    IN  /\ batteryCheck' =
                [batteryLevel |-> batteryLevel, isCharging |-> isCharging,
                 returned |-> IF batteryLevel < 20 /\ ~isCharging THEN "low"
                              ELSE IF batteryLevel < 10 /\ ~isCharging THEN "critical"
                              ELSE "normal"]
        /\ UNCHANGED deviceStatus
        /\ UNCHANGED <<otherVars, emergencyVars, besidesDevice>>

NextDevice ==
    \/ \E level \in BatteryLevels, charging \in BOOLEAN : updateBatteryStatus(level, charging)
    \/ enablePowerSavingMode
    \/ disablePowerSavingMode
    \/ switchToLightModel
    \/ switchToFullModel
    \/ checkBatteryLevel

SpecDevice == Init /\ [][NextDevice]_vars

\* C27: whenever powerSavingMode is on, currentModel is the light model
\* 'Gemma-3n-2B'.
C27_PowerSavingUsesLightModel ==
    deviceStatus.powerSavingMode => deviceStatus.currentModel = "Gemma-3n-2B"

\* C30: checkBatteryLevel returns 'critical' when batteryLevel < 10 and the
\* device is not charging, 'low' when 10 <= batteryLevel < 20 and it is not
\* charging, and 'normal' otherwise.
C30_BatteryLevelClassified ==
    batteryCheck.returned # "none" =>
        batteryCheck.returned =
            IF batteryCheck.batteryLevel < 10 /\ ~batteryCheck.isCharging THEN "critical"
            ELSE IF batteryCheck.batteryLevel < 20 /\ ~batteryCheck.isCharging THEN "low"
            ELSE "normal"

\* ---------------------------------------------------------------------------
\* OfflineService: the translation cache. The store 'translations' has the
\* auto-incremented key 'id' and the index 'text' on originalText, which is
\* not unique. The database is open.
\* ---------------------------------------------------------------------------

MaxTranslations == 3

\* Two emergency phrases and their translations, as preloadTranslations stores
\* them for every target language.
PhraseTexts == {"Help", "Fire"}
PhraseLanguages == {"es", "fr"}
PhraseIn ==
    [text \in PhraseTexts |->
        [language \in PhraseLanguages |->
            CASE text = "Help" /\ language = "es" -> "Ayuda"
              [] text = "Help" /\ language = "fr" -> "Aide"
              [] text = "Fire" /\ language = "es" -> "Fuego"
              [] OTHER -> "Feu"]]

\* storeTranslation: store.add(translation) under the next key.
storeTranslation(originalText, translatedText, targetLanguage) ==
    /\ Len(translations) < MaxTranslations
    /\ translations' = Append(translations,
            [id |-> Len(translations) + 1, originalText |-> originalText,
             translatedText |-> translatedText, targetLanguage |-> targetLanguage])
    /\ UNCHANGED cacheLookup
    /\ UNCHANGED <<otherVars, emergencyVars, besidesOffline>>

\* index.get(text): the record of the lowest key among those whose
\* originalText is the text, undefined when there is none.
\* getCachedTranslation resolves to its translatedText if its targetLanguage
\* is the one asked for, and to null otherwise.
getCachedTranslation(text, targetLanguage) ==
    LET hits == SelectSeq(translations, LAMBDA record : record.originalText = text)
        found == hits # <<>> /\ Head(hits).targetLanguage = targetLanguage
    IN  /\ cacheLookup' = [method |-> "getCachedTranslation", text |-> text,
                           targetLanguage |-> targetLanguage,
                           result |-> IF found THEN Head(hits).translatedText ELSE Null]
        /\ UNCHANGED translations
        /\ UNCHANGED <<otherVars, emergencyVars, besidesOffline>>

NextOffline ==
    \/ \E text \in PhraseTexts, language \in PhraseLanguages :
            storeTranslation(text, PhraseIn[text][language], language)
    \/ \E text \in PhraseTexts, language \in PhraseLanguages :
            getCachedTranslation(text, language)

SpecOffline == Init /\ [][NextOffline]_vars

\* C28: once a translation of a text into a language is stored,
\* getCachedTranslation(text, language) returns it, whatever else is in the
\* cache.
C28_StoredTranslationFound ==
    cacheLookup.method = "getCachedTranslation" =>
        \A i \in DOMAIN translations :
            (/\ translations[i].originalText = cacheLookup.text
             /\ translations[i].targetLanguage = cacheLookup.targetLanguage) =>
                cacheLookup.result = translations[i].translatedText

\* ---------------------------------------------------------------------------
\* client/src/components/chat-interface.tsx: ChatInterface. React runs the
\* pending effects and renders before it handles the next event, so a handler
\* reads the state the handler before it set.
\* ---------------------------------------------------------------------------

MaxSends == 4

\* What the input field can hold, and String(input || '').trim() of it.
Inputs == {"", "  ", "help", " fire "}
Trim == [text \in Inputs |->
            CASE text = " fire " -> "fire" [] text = "  " -> "" [] OTHER -> text]

WelcomeMessage == [role |-> "assistant", content |-> "Hello! I'm AidVoice", isEmergency |-> FALSE]

ErrorMessage ==
    [role |-> "assistant", content |-> "I apologize, but I encountered an error.",
     isEmergency |-> TRUE]

\* The effect on first load: if (messages.length === 0) setMessages([welcome]).
WelcomeEffect ==
    /\ Len(messages) = 0
    /\ messages' = <<WelcomeMessage>>
    /\ UNCHANGED <<input, isLoading, chatCall, chatSends>>
    /\ UNCHANGED <<otherVars, emergencyVars, besidesChat>>

\* The input's onChange, or the speech transcript: setInput(text).
SetInput(text) ==
    /\ Len(messages) > 0
    /\ input # text
    /\ input' = text
    /\ UNCHANGED <<messages, isLoading, chatCall, chatSends>>
    /\ UNCHANGED <<otherVars, emergencyVars, besidesChat>>

\* handleSendMessage without the test of isLoading.
handleSendMessage_Unguarded ==
    LET messageText == Trim[input]
    IN  /\ Len(messages) > 0
        /\ chatSends.attempted < MaxSends
        /\ IF messageText = ""
           THEN /\ chatSends' = [chatSends EXCEPT !.attempted = @ + 1]
                /\ UNCHANGED <<messages, input, isLoading, chatCall>>
           ELSE /\ messages' = Append(messages,
                        [role |-> "user", content |-> messageText, isEmergency |-> FALSE])
                /\ input' = ""
                /\ isLoading' = TRUE
                /\ chatCall' = [pc |-> "analyze-emergency", messageText |-> messageText]
                /\ chatSends' = [attempted |-> chatSends.attempted + 1,
                                 accepted |-> chatSends.accepted + 1]
        /\ UNCHANGED <<otherVars, emergencyVars, besidesChat>>

\* handleSendMessage up to its first await: nothing happens for an empty
\* message or while isLoading; else the user message is appended, the input
\* cleared, isLoading set and /api/gemini/analyze-emergency fetched.
handleSendMessage ==
    LET messageText == Trim[input]
    IN  /\ Len(messages) > 0
        /\ chatSends.attempted < MaxSends
        /\ IF messageText = "" \/ isLoading
           THEN /\ chatSends' = [chatSends EXCEPT !.attempted = @ + 1]
                /\ UNCHANGED <<messages, input, isLoading, chatCall>>
           ELSE /\ messages' = Append(messages,
                        [role |-> "user", content |-> messageText, isEmergency |-> FALSE])
                /\ input' = ""
                /\ isLoading' = TRUE
                /\ chatCall' = [pc |-> "analyze-emergency", messageText |-> messageText]
                /\ chatSends' = [attempted |-> chatSends.attempted + 1,
                                 accepted |-> chatSends.accepted + 1]
        /\ UNCHANGED <<otherVars, emergencyVars, besidesChat>>

\* The first fetch settles. `failed`: it rejected, answered not ok, or its
\* body was no JSON; the catch block appends the error notice and finally
\* clears isLoading. Else /api/gemini/chat is fetched.
AnalysisSettles(failed, isEmergency) ==
    /\ chatCall.pc = "analyze-emergency"
    /\ IF failed
       THEN /\ messages' = Append(messages, ErrorMessage)
            /\ isLoading' = FALSE
            /\ chatCall' = Idle
       ELSE /\ chatCall' = [pc |-> "chat", messageText |-> chatCall.messageText,
                            isEmergency |-> isEmergency]
            /\ UNCHANGED <<messages, isLoading>>
    /\ UNCHANGED <<input, chatSends>>
    /\ UNCHANGED <<otherVars, emergencyVars, besidesChat>>

\* The second fetch settles: the error notice, or the reply (an apology when
\* chatData.response is empty) flagged as the analysis said; then finally.
ChatSettles(failed, response) ==
    /\ chatCall.pc = "chat"
    /\ messages' = Append(messages,
            IF failed THEN ErrorMessage
            ELSE [role |-> "assistant",
                  content |-> IF response = "" THEN "I apologize, but I encountered an issue"
                              ELSE response,
                  isEmergency |-> chatCall.isEmergency])
    /\ isLoading' = FALSE
    /\ chatCall' = Idle
    /\ UNCHANGED <<input, chatSends>>
    /\ UNCHANGED <<otherVars, emergencyVars, besidesChat>>

NextChat ==
    \/ WelcomeEffect
    \/ \E text \in Inputs : SetInput(text)
    \/ handleSendMessage
    \/ \E failed \in BOOLEAN, isEmergency \in BOOLEAN : AnalysisSettles(failed, isEmergency)
    \/ \E failed \in BOOLEAN, response \in {"", "Stay calm."} : ChatSettles(failed, response)

SpecChat == Init /\ [][NextChat]_vars

\* Every fetch settles.
SpecChatFair ==
    /\ SpecChat
    /\ WF_vars(\E failed \in BOOLEAN, isEmergency \in BOOLEAN :
                    AnalysisSettles(failed, isEmergency))
    /\ WF_vars(\E failed \in BOOLEAN, response \in {"", "Stay calm."} :
                    ChatSettles(failed, response))


\* After the welcome message the messages alternate user, assistant; the
\* last one is a user message exactly while an exchange is in flight, and
\* isLoading is true exactly then.
ChatShape ==
    /\ isLoading <=> chatCall # Idle
    /\ chatSends.accepted <= chatSends.attempted
    /\ Len(messages) > 0 =>
        /\ messages[1] = WelcomeMessage
        /\ Len(messages) = 1 + 2 * chatSends.accepted - (IF isLoading THEN 1 ELSE 0)
        /\ \A i \in 2..Len(messages) :
                messages[i].role = IF i % 2 = 0 THEN "user" ELSE "assistant"

\* What one step of a send does to the conversation.
ChatStep ==
    /\ chatSends'.attempted > chatSends.attempted =>
        IF isLoading \/ Trim[input] = ""
        THEN UNCHANGED <<messages, input, isLoading, chatCall>>
        ELSE /\ messages' = Append(messages,
                    [role |-> "user", content |-> Trim[input], isEmergency |-> FALSE])
             /\ isLoading'
    /\ (isLoading /\ ~isLoading') =>
        /\ Len(messages') = Len(messages) + 1
        /\ messages'[Len(messages')].role = "assistant"
        /\ \/ messages'[Len(messages')] = ErrorMessage
           \/ /\ chatCall.pc = "chat"
              /\ messages'[Len(messages')].isEmergency = chatCall.isEmergency
        /\ \A i \in 1..Len(messages) : messages'[i] = messages[i]
    /\ (isLoading /\ isLoading') => messages' = messages

====
